---- MODULE Spec2Model ----
(***************************************************************************)
(* Spreadsheet synchronisation engine of server_metrics_sheet_updater:     *)
(* run_pipeline (src/src/pipeline.py) driving SheetsService                *)
(* (src/src/services/sheets.py) and DashboardBuilder                       *)
(* (src/src/services/sheets_dashboard.py) against one remote spreadsheet.  *)
(* Every remote round trip is one step; a remote call may succeed, be      *)
(* refused, or report a transient error with or without having taken       *)
(* effect on the spreadsheet.                                              *)
(***************************************************************************)
EXTENDS Integers, Sequences, FiniteSets, TLC

VARIABLES
    sheet,        \* the remote spreadsheet: tab name -> tab state
    run,          \* number of runs started so far
    step,         \* position of run_pipeline: "idle" or the step in progress
    pc,           \* position inside the current SheetsService / DashboardBuilder method
    attempt,      \* loop variable of _execute_with_backoff for the call in progress
    applied,      \* TRUE when an attempt of the call in progress changed the spreadsheet
    cfg,          \* config of the run: entity -> tab_config
    df,           \* datasets of the run: entity -> DataFrame
    ws,           \* name of the worksheet the current method works on
    nrules,       \* len(cond_formats) read by _reset_worksheet / charts read by _prepare_worksheet
    branch,       \* branch append_history took: "none", "skip", "init", "append"
    calls,        \* mutating remote calls issued by the current method, in order
    before,       \* the target tab as it was when the current method started
    result,       \* how the last run ended: "none", "ok", "nodata", "error"
    failure,      \* the remote failure that ended the last run
    lost,         \* changes the spreadsheet committed while answering with an error
    script,       \* _execute_with_backoff alone: status of each invocation of func
    invocations,  \* _execute_with_backoff alone: number of invocations of func
    sleeps,       \* _execute_with_backoff alone: number of time.sleep calls
    outcome,      \* _execute_with_backoff alone: "running", "returned", "raised"
    tz,           \* transformer alone: UTC offset of config.timezone, in hours
    raw_docs,     \* transformer alone: the documents read from Firestore
    columns_config, \* transformer alone: the "columns" mapping of both tab configs
    flat,         \* transformer alone: servers_rows and cameras_rows
    datasets,     \* transformer alone: what process_data returns
    refixed,      \* transformer alone: _fix_timestamps applied to its own result
    tstage,       \* transformer alone: "idle", "start", "flat", "done"
    cpc,          \* two runs at once: where each run is
    cbranch,      \* two runs at once: has_header and len(cond_formats) as each run read them
    ctabs,        \* two runs at once: the snapshot tab and the history tab
    overlapped    \* two runs at once: a run started while the other was in flight

vars == << sheet, run, step, pc, attempt, applied, cfg, df, ws, nrules, branch,
           calls, before, result, failure, lost, script, invocations, sleeps, outcome,
           tz, raw_docs, columns_config, flat, datasets, refixed, tstage,
           cpc, cbranch, ctabs, overlapped >>

pipelineVars == << sheet, run, step, pc, attempt, applied, cfg, df, ws, nrules,
                   branch, calls, before, result, failure, lost >>

backoffVars == << script, invocations, sleeps, outcome >>

transformVars == << tz, raw_docs, columns_config, flat, datasets, refixed, tstage >>

concurrentVars == << cpc, cbranch, ctabs, overlapped >>

----------------------------------------------------------------------------
(* Bounds of the model *)

MaxRuns == 2
MaxRows == 2
MaxLost == 1

(* Program constants *)

max_rows == 1200
max_cols == 40
max_attempts == 6
start_row == 6

----------------------------------------------------------------------------
(* Data: cells, DataFrames, tab configs *)

\* A missing value (None / NaN) and the empty string, as cell values; the other
\* cells are positive numbers.
NaN == 0 - 1
EmptyCell == 0

Entities == {"servers", "cameras"}

Col(n, f, o, v) == [name |-> n, format |-> f, op |-> o, value |-> v]

\* tab_config values the YAML can hold: ordered columns, optional history tab.
ServersA ==
    [ tab_name |-> "Servidores", title |-> "Servidores", history_tab |-> "Hist_Servidores",
      columns |-> << Col("Servidor", "TEXT", "", 0),
                     Col("CPU", "PERCENT", ">", 80) >> ]

ServersB ==
    [ tab_name |-> "Servidores", title |-> "Servidores", history_tab |-> "Hist_Servidores",
      columns |-> << Col("Servidor", "TEXT", "", 0),
                     Col("RAM", "NUMBER", "<", 5),
                     Col("CPU", "PERCENT", "==", 80) >> ]

CamerasA ==
    [ tab_name |-> "Camaras", title |-> "Camaras", history_tab |-> "Hist_Camaras",
      columns |-> << Col("Servidor", "TEXT", "", 0),
                     Col("Estado", "TEXT", "!=", 1) >> ]

CamerasB ==
    [ tab_name |-> "Camaras", title |-> "Reporte", history_tab |-> "Hist_Camaras",
      columns |-> << Col("Camara", "TEXT", "", 0),
                     Col("Estado", "TEXT", "!=", 1) >> ]

Configs ==
    { [servers |-> ServersA, cameras |-> CamerasA],
      [servers |-> ServersB, cameras |-> CamerasB] }

NoConfig == [servers |-> ServersA, cameras |-> CamerasA]

ColumnNames(columns) == [i \in 1..Len(columns) |-> columns[i].name]

\* The table the transformer hands over for a tab: n rows, one per entity, all
\* declared columns present; first column the entity, the others the values read in
\* run r, the third column missing in the second row.  No rows: no columns either.
MakeDf(tab_config, n, r) ==
    IF n = 0 THEN [cols |-> << >>, rows |-> << >>]
    ELSE [ cols |-> ColumnNames(tab_config.columns),
           rows |-> [ i \in 1..n |->
                        [ c \in 1..Len(tab_config.columns) |->
                            IF c = 1 THEN i
                            ELSE IF c = 3 /\ i = 2 THEN NaN
                            ELSE r ] ] ]

EmptyDf == [cols |-> << >>, rows |-> << >>]

\* A DataFrame that never counts as empty.
DfNeverEmpty(d) == FALSE

\* pandas DataFrame.empty
DfEmpty(d) == Len(d.cols) = 0 \/ Len(d.rows) = 0

\* _normalize_df_for_sheet on the cells of the model: numbers are kept, NaN -> "".
NormalizeCell(v) == IF v = NaN THEN EmptyCell ELSE v

NormalizeDf(d) ==
    [ cols |-> d.cols,
      rows |-> [ i \in 1..Len(d.rows) |->
                   [ c \in 1..Len(d.rows[i]) |-> NormalizeCell(d.rows[i][c]) ] ] ]

\* update_snapshot: normalized_df = self._normalize_df_for_sheet(df)
SnapshotPayload(d) == NormalizeDf(d)

\* A history write that takes the DataFrame as it is.
HistoryPayloadRaw(d) == d

\* append_history: df_history = self._normalize_df_for_sheet(df)
HistoryPayload(d) == NormalizeDf(d)

----------------------------------------------------------------------------
(* The remote spreadsheet *)

TabNames == {"Servidores", "Hist_Servidores", "Camaras", "Hist_Camaras", "Dashboard"}

\* A tab: grid size against the working area, the values (title cell, metadata
\* stamp, the table's header row and data rows, hrow the row the header sits in), the
\* conditional rules in priority order, merged ranges, cell formats, validated
\* ranges, gridlines, embedded charts.
Tab(ex, big) ==
    [ exists |-> ex, tall |-> big, wide |-> big,
      title |-> "", stamp |-> 0, hrow |-> 0, header |-> << >>, data |-> << >>,
      rules |-> << >>, merges |-> {}, fmts |-> {}, validations |-> {},
      gridlines |-> TRUE, charts |-> 0 ]

\* Ranges are <<first row, first column, last row, last column>>, 1-based, inclusive.
Within(a, b) == a[1] >= b[1] /\ a[2] >= b[2] /\ a[3] <= b[3] /\ a[4] <= b[4]

NoRange == << 0, 0, 0, 0 >>

NoFormula == [kind |-> "none", op |-> "", server |-> 0, cell |-> 0, value |-> 0]

NoRule == [range |-> NoRange, formula |-> NoFormula]

Request(k, rng, st, rl) == [kind |-> k, range |-> rng, style |-> st, rule |-> rl]

\* Worksheet.clear(): every value goes, formats, rules and merges stay.
ClearValues(t) ==
    [t EXCEPT !.title = "", !.stamp = 0, !.hrow = 0, !.header = << >>, !.data = << >>]

\* A values write of header + rows at row r: the written cells are overwritten, the
\* cells below them keep what they held.
WriteTable(t, r, header, rows) ==
    [t EXCEPT !.hrow = r, !.header = header,
              !.data = rows \o SubSeq(t.data, Len(rows) + 1, Len(t.data))]

WriteTitle(t, title, stamp) == [t EXCEPT !.title = title, !.stamp = stamp]

\* An append that writes the rows over the table.
AppendRowsOverTable(t, rows) == [t EXCEPT !.data = rows]

\* Worksheet.append_rows(): the rows go below the last row of the table.
AppendRows(t, rows) == [t EXCEPT !.data = t.data \o rows]

\* One request of a spreadsheets.batchUpdate, on the tab it names.
RequestValid(t, q) ==
    CASE q.kind = "deleteConditionalFormatRule" -> Len(t.rules) > 0
      [] q.kind = "deleteEmbeddedObject" -> t.charts > 0
      [] OTHER -> TRUE

ApplyRequest(t, q) ==
    CASE q.kind = "deleteConditionalFormatRule" -> [t EXCEPT !.rules = Tail(t.rules)]
      [] q.kind = "addConditionalFormatRule" -> [t EXCEPT !.rules = << q.rule >> \o t.rules]
      [] q.kind = "unmergeCells" ->
            [t EXCEPT !.merges = { m \in t.merges : ~Within(m, q.range) }]
      [] q.kind = "mergeCells" -> [t EXCEPT !.merges = t.merges \cup { q.range }]
      [] q.kind = "repeatCell" ->
            IF q.style = ""
            THEN [t EXCEPT !.fmts = { f \in t.fmts : ~Within(f.range, q.range) }]
            ELSE [t EXCEPT !.fmts = t.fmts \cup { [style |-> q.style, range |-> q.range] }]
      [] q.kind = "setDataValidation" ->
            IF q.style = ""
            THEN [t EXCEPT !.validations = { v \in t.validations : ~Within(v, q.range) }]
            ELSE [t EXCEPT !.validations = t.validations \cup { q.range }]
      [] q.kind = "updateSheetProperties" -> [t EXCEPT !.gridlines = FALSE]
      [] q.kind = "deleteEmbeddedObject" -> [t EXCEPT !.charts = t.charts - 1]
      [] q.kind = "addChart" -> [t EXCEPT !.charts = t.charts + 1]
      [] OTHER -> t

\* The requests of a batch are applied in order; the batch is all-or-nothing.
RECURSIVE ApplyRequests(_, _)
ApplyRequests(t, reqs) ==
    IF Len(reqs) = 0 THEN t
    ELSE ApplyRequests(ApplyRequest(t, Head(reqs)), Tail(reqs))

RECURSIVE RequestsValid(_, _)
RequestsValid(t, reqs) ==
    IF Len(reqs) = 0 THEN TRUE
    ELSE /\ RequestValid(t, Head(reqs))
         /\ RequestsValid(ApplyRequest(t, Head(reqs)), Tail(reqs))

----------------------------------------------------------------------------
(* Request builders of SheetsService *)

FORMATS == {"NUMBER", "INTEGER", "PERCENT", "DATE_TIME", "TEXT", "DURATION"}

CONDITION_MAP == {">", ">=", "<", "<=", "==", "between", "not_between"}

WholeArea == << 1, 1, max_rows, max_cols >>

\* display_map.get(col_name): position of the column spec with that display name,
\* 0 when the config declares none.
ConfIndex(tab_config, col_name) ==
    IF \E i \in 1..Len(tab_config.columns) : tab_config.columns[i].name = col_name
    THEN CHOOSE i \in 1..Len(tab_config.columns) :
            /\ tab_config.columns[i].name = col_name
            /\ \A j \in (i + 1)..Len(tab_config.columns) :
                  tab_config.columns[j].name # col_name
    ELSE 0

\* A threshold formula that takes > for >=.
BuildThresholdFormulaNotStrict(operator, conf, cell_idx, server_idx) ==
    IF operator \in {">", ">=", "<", "<="}
    THEN [kind |-> "compare_non_empty", op |-> IF operator = ">" THEN ">=" ELSE operator,
          server |-> server_idx, cell |-> cell_idx, value |-> conf.value]
    ELSE NoFormula

\* The custom formula of a threshold, NoFormula for None.
BuildThresholdFormula(operator, conf, cell_idx, server_idx) ==
    IF operator = "!="
    THEN IF conf.format = "TEXT"
         THEN [kind |-> "neq_trim_text", op |-> operator, server |-> server_idx,
               cell |-> cell_idx, value |-> conf.value]
         ELSE [kind |-> "neq", op |-> operator, server |-> server_idx,
               cell |-> cell_idx, value |-> conf.value]
    ELSE IF operator \notin CONDITION_MAP THEN NoFormula
    ELSE IF operator \in {">", ">=", "<", "<="}
    THEN [kind |-> "compare_non_empty", op |-> operator, server |-> server_idx,
          cell |-> cell_idx, value |-> conf.value]
    ELSE IF operator \in {"between", "not_between"}
    THEN [kind |-> operator, op |-> operator, server |-> server_idx,
          cell |-> cell_idx, value |-> conf.value]
    ELSE NoFormula

\* Position of the "Servidor" column of the table, 0 when there is none.
ServerColIdx(d) ==
    IF \E i \in 1..Len(d.cols) : d.cols[i] = "Servidor"
    THEN CHOOSE i \in 1..Len(d.cols) :
            d.cols[i] = "Servidor" /\ \A j \in 1..(i - 1) : d.cols[j] # "Servidor"
    ELSE 0

\* The loop body of _build_conditional_format_requests for column idx.
ConditionalRequestOf(d, tab_config, data_first_row, server_idx, idx) ==
    LET ci == ConfIndex(tab_config, d.cols[idx]) IN
    IF ci = 0 THEN << >>
    ELSE LET conf == tab_config.columns[ci]
             formula == BuildThresholdFormula(conf.op, conf, idx, server_idx)
         IN IF conf.op = "" THEN << >>
            ELSE IF formula = NoFormula THEN << >>
            ELSE << Request("addConditionalFormatRule", NoRange, "ALERT_RED",
                            [ range |-> << data_first_row, idx, max_rows, idx >>,
                              formula |-> formula ]) >>

RECURSIVE ConditionalRequestsFrom(_, _, _, _, _)
ConditionalRequestsFrom(d, tab_config, data_first_row, server_idx, idx) ==
    IF idx > Len(d.cols) THEN << >>
    ELSE ConditionalRequestOf(d, tab_config, data_first_row, server_idx, idx)
         \o ConditionalRequestsFrom(d, tab_config, data_first_row, server_idx, idx + 1)

BuildConditionalFormatRequests(d, tab_config, data_first_row) ==
    IF ServerColIdx(d) = 0 THEN << >>
    ELSE ConditionalRequestsFrom(d, tab_config, data_first_row, ServerColIdx(d), 1)

\* op: str = cast(str, threshold.get("operator", "")).strip() raises AttributeError
\* when the YAML gives the operator no value (None, written "null" here); the loop
\* is only reached when the table has the "Servidor" column.
ThresholdRaises(d, tab_config) ==
    /\ ServerColIdx(d) # 0
    /\ \E idx \in 1..Len(d.cols) :
          /\ ConfIndex(tab_config, d.cols[idx]) # 0
          /\ tab_config.columns[ConfIndex(tab_config, d.cols[idx])].op = "null"

\* A column format that starts at the header row of the table.
ColumnFormatRequestOfWithHeader(tab_config, d, data_first_row, data_last_row, idx) ==
    LET ci == ConfIndex(tab_config, d.cols[idx]) IN
    IF ci = 0 THEN << >>
    ELSE IF tab_config.columns[ci].format \notin FORMATS THEN << >>
    ELSE << Request("repeatCell", << data_first_row - 1, idx, data_last_row, idx >>,
                    tab_config.columns[ci].format, NoRule) >>

\* The loop body of _build_column_format_requests for column idx.
ColumnFormatRequestOf(tab_config, d, data_first_row, data_last_row, idx) ==
    LET ci == ConfIndex(tab_config, d.cols[idx]) IN
    IF ci = 0 THEN << >>
    ELSE IF tab_config.columns[ci].format \notin FORMATS THEN << >>
    ELSE << Request("repeatCell", << data_first_row, idx, data_last_row, idx >>,
                    tab_config.columns[ci].format, NoRule) >>

RECURSIVE ColumnFormatRequestsFrom(_, _, _, _, _)
ColumnFormatRequestsFrom(tab_config, d, data_first_row, data_last_row, idx) ==
    IF idx > Len(d.cols) THEN << >>
    ELSE ColumnFormatRequestOf(tab_config, d, data_first_row, data_last_row, idx)
         \o ColumnFormatRequestsFrom(tab_config, d, data_first_row, data_last_row, idx + 1)

BuildColumnFormatRequests(tab_config, d, data_first_row, data_last_row) ==
    ColumnFormatRequestsFrom(tab_config, d, data_first_row, data_last_row, 1)

\* A reset that deletes no conditional rule.
ResetRequestsKeepingRules(n) ==
    << Request("unmergeCells", WholeArea, "", NoRule),
       Request("repeatCell", WholeArea, "", NoRule),
       Request("setDataValidation", WholeArea, "", NoRule),
       Request("updateSheetProperties", NoRange, "", NoRule) >>

\* The requests of _reset_worksheet, n the number of rules the metadata reported.
ResetRequests(n) ==
    [ i \in 1..n |-> Request("deleteConditionalFormatRule", NoRange, "", NoRule) ]
    \o << Request("unmergeCells", WholeArea, "", NoRule),
          Request("repeatCell", WholeArea, "", NoRule),
          Request("setDataValidation", WholeArea, "", NoRule),
          Request("updateSheetProperties", NoRange, "", NoRule) >>

\* The requests of _apply_snapshot_structure_and_styles.
SnapshotStructureRequests(tab_config, d, first_row) ==
    LET col_count == Len(d.cols)
        row_count == Len(d.rows)
        data_first_row == first_row + 1
        data_last_row == first_row + row_count
    IN << Request("mergeCells", << 1, 1, 1, 2 >>, "", NoRule),
          Request("repeatCell", << 1, 1, 1, 2 >>, "HEADER_MAIN", NoRule),
          Request("repeatCell", << 2, 1, 3, 1 >>, "METADATA_LABEL", NoRule),
          Request("repeatCell", << 2, 2, 3, 2 >>, "METADATA_VALUE", NoRule),
          Request("repeatCell", << 2, 2, 2, 2 >>, "DATE_TIME", NoRule),
          Request("repeatCell", << 3, 2, 3, 2 >>, "DURATION", NoRule),
          Request("repeatCell", << first_row, 1, data_last_row, col_count >>,
                  "TABLE_BASE", NoRule),
          Request("repeatCell", << first_row, 1, first_row, col_count >>,
                  "HEADER_BLUE", NoRule) >>
       \o BuildColumnFormatRequests(tab_config, d, data_first_row, data_last_row)
       \o BuildConditionalFormatRequests(d, tab_config, data_first_row)

\* A history format batch without the header style.
HistoryFormatRequestsWithoutHeader(tab_config, d, first_row) ==
    BuildColumnFormatRequests(tab_config, d, first_row + 1, max_rows)

\* The requests of _apply_history_styles_and_formats.
HistoryFormatRequests(tab_config, d, first_row) ==
    << Request("repeatCell", << 1, 1, 1, Len(d.cols) >>, "HEADER_BLUE", NoRule) >>
    \o BuildColumnFormatRequests(tab_config, d, first_row + 1, max_rows)

\* A preparation that deletes no chart.
DashboardPrepareRequestsKeepingCharts(n) ==
    << Request("setDataValidation", << 1, 1, 1000, 50 >>, "", NoRule),
       Request("updateSheetProperties", NoRange, "", NoRule) >>

\* The requests of DashboardBuilder._prepare_worksheet, n the charts the metadata
\* reported.
DashboardPrepareRequests(n) ==
    [ i \in 1..n |-> Request("deleteEmbeddedObject", NoRange, "", NoRule) ]
    \o << Request("setDataValidation", << 1, 1, 1000, 50 >>, "", NoRule),
          Request("updateSheetProperties", NoRange, "", NoRule) >>

\* The request batch DashboardBuilder.build collects: layout, selectors, charts.
DashboardStructureRequests ==
    << Request("mergeCells", << 1, 1, 1, 26 >>, "", NoRule),
       Request("repeatCell", << 1, 1, 1, 26 >>, "HEADER_DASHBOARD", NoRule),
       Request("repeatCell", << 2, 1, 100, 26 >>, "DASHBOARD_BG", NoRule),
       Request("repeatCell", << 3, 2, 3, 2 >>, "LABEL_BOLD", NoRule),
       Request("repeatCell", << 3, 5, 3, 5 >>, "LABEL_BOLD", NoRule),
       Request("repeatCell", << 28, 2, 28, 2 >>, "LABEL_BOLD", NoRule),
       Request("repeatCell", << 28, 5, 28, 5 >>, "LABEL_BOLD", NoRule),
       Request("setDataValidation", << 3, 3, 3, 3 >>, "ONE_OF_RANGE", NoRule),
       Request("setDataValidation", << 3, 6, 3, 6 >>, "ONE_OF_LIST", NoRule),
       Request("setDataValidation", << 28, 3, 28, 3 >>, "ONE_OF_RANGE", NoRule),
       Request("setDataValidation", << 28, 6, 28, 6 >>, "ONE_OF_LIST", NoRule),
       Request("addChart", << 6, 2, 6, 2 >>, "LINE", NoRule),
       Request("addChart", << 31, 2, 31, 2 >>, "LINE", NoRule) >>

----------------------------------------------------------------------------
(* _execute_with_backoff *)

\* retryable: bool = status in (429, 500, 503)
Retryable(status) == status \in {429, 500, 503}

\* A loop that retries every error.
BackoffStepRetryingEveryError(att, status) ==
    IF status = 200 THEN "return"
    ELSE IF att = max_attempts THEN "raise"
    ELSE "sleep"

\* What one pass of the loop does after func() answered with `status` (200: func
\* returned): return its result, raise, or sleep and go round again.
BackoffStep(att, status) ==
    IF status = 200 THEN "return"
    ELSE IF ~Retryable(status) \/ att = max_attempts THEN "raise"
    ELSE "sleep"

\* What a remote call can answer, and whether the spreadsheet took the change: a
\* success took it, a refusal (400, 429) did not, a server error (500, 503) may
\* have been raised before or after the change was committed.
Outcomes ==
    { [status |-> 200, effect |-> TRUE],
      [status |-> 400, effect |-> FALSE],
      [status |-> 429, effect |-> FALSE],
      [status |-> 500, effect |-> FALSE],
      [status |-> 500, effect |-> TRUE],
      [status |-> 503, effect |-> FALSE],
      [status |-> 503, effect |-> TRUE] }

----------------------------------------------------------------------------
(* run_pipeline: the fixed order of the steps *)

SnapshotSteps == {"servers_snapshot", "cameras_snapshot"}
HistorySteps == {"servers_history", "cameras_history"}

StepEntity(s) ==
    IF s \in {"servers_snapshot", "servers_history"} THEN "servers" ELSE "cameras"

\* A pipeline that rebuilds the dashboard before the cameras history.
NextStepDashboardEarly(s) ==
    CASE s = "fetch" -> "servers_snapshot"
      [] s = "servers_snapshot" -> "servers_history"
      [] s = "servers_history" -> "cameras_snapshot"
      [] s = "cameras_snapshot" -> "dashboard"
      [] s = "dashboard" -> "cameras_history"
      [] OTHER -> "idle"

NextStep(s) ==
    CASE s = "fetch" -> "servers_snapshot"
      [] s = "servers_snapshot" -> "servers_history"
      [] s = "servers_history" -> "cameras_snapshot"
      [] s = "cameras_snapshot" -> "cameras_history"
      [] s = "cameras_history" -> "dashboard"
      [] OTHER -> "idle"

NoFailure == [site |-> "", step |-> "", status |-> 0, attempt |-> 0, applied |-> FALSE]

\* The method goes on at `nextpc`; "return" ends the method and run_pipeline goes on
\* to its next step, or ends the run after the last one.
Advance(nextpc) ==
    /\ attempt' = 1
    /\ applied' = FALSE
    /\ failure' = failure
    /\ IF nextpc = "return"
       THEN /\ pc' = "begin"
            /\ step' = NextStep(step)
            /\ result' = IF NextStep(step) = "idle" THEN "ok" ELSE result
       ELSE /\ pc' = nextpc
            /\ step' = step
            /\ result' = result

\* An exception that is logged where it happens, the pipeline going on with its next
\* step.
RaiseAndGoOn(status, effect) ==
    /\ step' = NextStep(step)
    /\ pc' = "begin"
    /\ attempt' = 1
    /\ applied' = FALSE
    /\ result' = "error"
    /\ failure' = [ site |-> pc, step |-> step, status |-> status,
                    attempt |-> attempt, applied |-> applied \/ effect ]

\* An exception after which the failed step is started again.
RaiseAndResume(status, effect) ==
    /\ step' = step
    /\ pc' = "begin"
    /\ attempt' = 1
    /\ applied' = FALSE
    /\ result' = "error"
    /\ failure' = [ site |-> pc, step |-> step, status |-> status,
                    attempt |-> attempt, applied |-> applied \/ effect ]

\* An exception leaves the method; run_pipeline's except clause logs it and returns.
Raise(status, effect) ==
    /\ step' = "idle"
    /\ pc' = "begin"
    /\ attempt' = 1
    /\ applied' = FALSE
    /\ result' = "error"
    /\ failure' = [ site |-> pc, step |-> step, status |-> status,
                    attempt |-> attempt, applied |-> applied \/ effect ]

\* The call at `site` made through _execute_with_backoff: one invocation of func per
\* step.  newTab is the tab after the change, valid whether the API accepts the call.
Wrapped(site, newTab, valid, nextpc) ==
    /\ pc = site
    /\ attempt <= max_attempts
    /\ \E o \in Outcomes :
          /\ o.effect => valid
          /\ (o.effect /\ o.status # 200) => lost < MaxLost
          /\ lost' = IF o.effect /\ o.status # 200 THEN lost + 1 ELSE lost
          /\ sheet' = IF o.effect THEN [sheet EXCEPT ![ws] = newTab] ELSE sheet
          /\ calls' = IF attempt = 1 THEN Append(calls, site) ELSE calls
          /\ CASE BackoffStep(attempt, o.status) = "return" -> Advance(nextpc)
               [] BackoffStep(attempt, o.status) = "raise" -> Raise(o.status, o.effect)
               [] OTHER ->
                     /\ attempt' = attempt + 1
                     /\ applied' = (applied \/ o.effect)
                     /\ UNCHANGED << pc, step, result, failure >>

\* The call at `site` made directly on the gspread object: any error propagates.
Direct(site, newTab, valid, nextpc) ==
    /\ pc = site
    /\ \E o \in Outcomes :
          /\ o.effect => valid
          /\ (o.effect /\ o.status # 200) => lost < MaxLost
          /\ lost' = IF o.effect /\ o.status # 200 THEN lost + 1 ELSE lost
          /\ sheet' = IF o.effect THEN [sheet EXCEPT ![ws] = newTab] ELSE sheet
          /\ calls' = Append(calls, site)
          /\ IF o.status = 200 THEN Advance(nextpc) ELSE Raise(o.status, o.effect)

\* A step of a method that issues no mutating call.
Local(nextpc) ==
    /\ Advance(nextpc)
    /\ UNCHANGED << sheet, calls, lost >>

\* A header check that reads the row of a snapshot's table header.
FirstRowAtTableRow(t) == IF t.hrow = start_row THEN t.header ELSE << >>

\* header_row = ws.get_values("A1:Z1"): the cells of row 1.
FirstRow(t) ==
    IF t.hrow = 1 THEN t.header
    ELSE IF t.title # "" THEN << t.title >>
    ELSE << >>

\* A header check that never finds a header.
HeaderNeverFound(t) == FALSE

\* has_header = bool(header_row and header_row[0])
HasHeader(t) == Len(FirstRow(t)) > 0

\* An update_snapshot that writes without resetting.
AfterWorksheetSkippingReset(s) == IF s \in SnapshotSteps THEN "values" ELSE "header_check"

\* Where _get_or_create_worksheet's caller goes on.
AfterWorksheet(s) == IF s \in SnapshotSteps THEN "clear" ELSE "header_check"

\* Where _reset_worksheet's caller goes on.
AfterReset(s) == IF s \in SnapshotSteps THEN "values" ELSE "init_values"

\* The size checks after the worksheet was found.
SizeCheck(t, s) ==
    IF ~t.tall THEN "resize_rows"
    ELSE IF ~t.wide THEN "resize_cols"
    ELSE AfterWorksheet(s)

ReadSites == {"lookup", "fetch_meta", "header_check", "d_lookup", "d_meta"}

MutatingSites ==
    { "add_worksheet", "resize_rows", "resize_cols", "clear", "reset_batch", "values",
      "structure", "init_values", "init_formats", "append",
      "d_add", "d_clear", "d_prepare", "d_values", "d_structure" }

----------------------------------------------------------------------------
(* DataTransformer *)

MaxCams == 1

\* A value of a document or of a row: a number, a date-like string (v the instant it
\* denotes, read as UTC), any other scalar ("text"), a timezone-unmarked datetime, a
\* map, a missing cell of a DataFrame ("nan"), dict.get() finding nothing ("none").
\* Instants and offsets are in hours.
Val(k, x) == [kind |-> k, v |-> x]

NoneVal == Val("none", 0)

NaNVal == Val("nan", 0)

Entry(k, value) == [key |-> k, val |-> value]

\* "timestamp" in key.lower() or "utc" in key.lower(), for the keys of the model.
TimeKeys == {"timestamp_query", "timestamp_query_dt", "last_utc", "last_utc_dt"}

\* "_dt" in key
DtKeys == {"timestamp_query_dt", "last_utc_dt"}

\* out_key = key if "_dt" in key else f"{key}_dt"
OutKey(key) ==
    IF key \in DtKeys THEN key
    ELSE IF key = "timestamp_query" THEN "timestamp_query_dt"
    ELSE IF key = "last_utc" THEN "last_utc_dt"
    ELSE key

\* Python dict, in insertion order.
HasKey(row, k) == \E i \in 1..Len(row) : row[i].key = k

Get(row, k) ==
    IF HasKey(row, k) THEN row[CHOOSE i \in 1..Len(row) : row[i].key = k].val
    ELSE NoneVal

Put(row, k, value) ==
    IF HasKey(row, k)
    THEN [ i \in 1..Len(row) |-> IF row[i].key = k THEN Entry(k, value) ELSE row[i] ]
    ELSE Append(row, Entry(k, value))

RECURSIVE Update(_, _, _)
\* row.update(data), from entry i of data on.
Update(row, data, i) ==
    IF i > Len(data) THEN row
    ELSE Update(Put(row, data[i].key, data[i].val), data, i + 1)

\* pd.to_datetime(value, unit="s" if number else None, utc=True, errors="coerce")
\* gives an instant for a number (epoch), a date-like string and a datetime (an
\* unmarked one is taken as UTC); anything else is NaT or raises, and is skipped.
Parses(value) == value.kind \in {"num", "str", "naive"}

\* dt.tz_convert(self.tz).tz_localize(None)
Converted(value, offset) == Val("naive", value.v + offset)

RECURSIVE FixFrom(_, _, _, _)
\* The loop of _fix_timestamps over row.items(), from entry i on.
FixFrom(row, new_row, offset, i) ==
    IF i > Len(row) THEN new_row
    ELSE IF row[i].key \in TimeKeys /\ Parses(row[i].val)
    THEN FixFrom(row, Put(new_row, OutKey(row[i].key), Converted(row[i].val, offset)),
                 offset, i + 1)
    ELSE FixFrom(row, new_row, offset, i + 1)

FixTimestamps(row, offset) == FixFrom(row, row, offset, 1)

\* f"server_stats_{sk}", for the keys of the model.
StatsKey(sk) == IF sk = "cpu" THEN "server_stats_cpu" ELSE "server_stats_ram"

RECURSIVE HoistStats(_, _, _)
HoistStats(row, stats, i) ==
    IF i > Len(stats) THEN row
    ELSE HoistStats(Put(row, StatsKey(stats[i].key), stats[i].val), stats, i + 1)

RECURSIVE FlattenServerFrom(_, _, _)
\* The loop of _flatten_server over data.items(); d.stats is what a map-shaped
\* server_stats holds.
FlattenServerFrom(row, d, i) ==
    IF i > Len(d.data) THEN row
    ELSE IF d.data[i].key = "cameras_status" THEN FlattenServerFrom(row, d, i + 1)
    ELSE IF d.data[i].key = "server_stats" /\ d.data[i].val.kind = "map"
    THEN FlattenServerFrom(HoistStats(row, d.stats, 1), d, i + 1)
    ELSE FlattenServerFrom(Put(row, d.data[i].key, d.data[i].val), d, i + 1)

FlattenServer(d, offset) ==
    FixTimestamps(FlattenServerFrom(<< Entry("Server Name", d.id) >>, d, 1), offset)

FlattenCamera(server_id, cam, offset) ==
    FixTimestamps(Update(<< Entry("Server Name", server_id),
                            Entry("camera_name", cam.name) >>, cam.data, 1), offset)

\* A camera row that keeps the query time derived from its own field.
KeepOwnQueryTime(cam_row, server_query_time) == cam_row

\* if server_query_time is not None: cam_row["timestamp_query_dt"] = server_query_time
InheritQueryTime(cam_row, server_query_time) ==
    IF server_query_time # NoneVal
    THEN Put(cam_row, "timestamp_query_dt", server_query_time)
    ELSE cam_row

RECURSIVE CameraRowsFrom(_, _, _, _)
\* The loop of process_data over cameras_status.items(), from camera i on.
CameraRowsFrom(d, server_query_time, offset, i) ==
    IF i > Len(d.cams) THEN << >>
    ELSE IF d.cams[i].val.kind # "map"
    THEN CameraRowsFrom(d, server_query_time, offset, i + 1)
    ELSE << InheritQueryTime(FlattenCamera(d.id, d.cams[i], offset), server_query_time) >>
         \o CameraRowsFrom(d, server_query_time, offset, i + 1)

CameraRows(d, offset) ==
    IF Get(d.data, "cameras_status").kind = "map"
    THEN CameraRowsFrom(d, Get(FlattenServer(d, offset), "timestamp_query_dt"), offset, 1)
    ELSE << >>

RECURSIVE FlattenDocsLaterFirst(_, _, _)
\* A loop that puts the camera rows of a document after those of the later ones.
FlattenDocsLaterFirst(docs, offset, i) ==
    IF i > Len(docs) THEN [servers |-> << >>, cameras |-> << >>]
    ELSE LET rest == FlattenDocsLaterFirst(docs, offset, i + 1)
         IN [ servers |-> << FlattenServer(docs[i], offset) >> \o rest.servers,
              cameras |-> rest.cameras \o CameraRows(docs[i], offset) ]

\* process_data: the loop over raw_docs, from document i on.
RECURSIVE FlattenDocsFrom(_, _, _)
FlattenDocsFrom(docs, offset, i) ==
    IF i > Len(docs) THEN [servers |-> << >>, cameras |-> << >>]
    ELSE LET rest == FlattenDocsFrom(docs, offset, i + 1)
         IN [ servers |-> << FlattenServer(docs[i], offset) >> \o rest.servers,
              cameras |-> CameraRows(docs[i], offset) \o rest.cameras ]

\* pd.DataFrame(rows): the columns are the keys in the order they first appear, a
\* row without a key has NaN there; no rows, no columns.
RECURSIVE AddKeys(_, _, _)
AddKeys(columns, row, i) ==
    IF i > Len(row) THEN columns
    ELSE IF \E c \in 1..Len(columns) : columns[c] = row[i].key
    THEN AddKeys(columns, row, i + 1)
    ELSE AddKeys(Append(columns, row[i].key), row, i + 1)

RECURSIVE KeysOfRows(_, _, _)
KeysOfRows(columns, rows, r) ==
    IF r > Len(rows) THEN columns
    ELSE KeysOfRows(AddKeys(columns, rows[r], 1), rows, r + 1)

DataFrame(rows) ==
    LET columns == KeysOfRows(<< >>, rows, 1)
    IN [ cols |-> columns,
         rows |-> [ r \in 1..Len(rows) |->
                      [ c \in 1..Len(columns) |->
                          IF HasKey(rows[r], columns[c]) THEN Get(rows[r], columns[c])
                          ELSE NaNVal ] ] ]

\* rename_map applied to one column label.
RenameColumn(config, label) ==
    IF \E i \in 1..Len(config) : config[i].src = label
    THEN config[CHOOSE i \in 1..Len(config) : config[i].src = label].name
    ELSE label

RECURSIVE FinalCols(_, _, _)
\* final_cols: the declared names found among the renamed labels, in declared order.
FinalCols(config, labels, i) ==
    IF i > Len(config) THEN << >>
    ELSE IF \E c \in 1..Len(labels) : labels[c] = config[i].name
    THEN << config[i].name >> \o FinalCols(config, labels, i + 1)
    ELSE FinalCols(config, labels, i + 1)

RECURSIVE PositionsOf(_, _, _)
\* The positions of the columns labelled `name`, from column c on.
PositionsOf(labels, name, c) ==
    IF c > Len(labels) THEN << >>
    ELSE IF labels[c] = name THEN << c >> \o PositionsOf(labels, name, c + 1)
    ELSE PositionsOf(labels, name, c + 1)

RECURSIVE Indexer(_, _, _)
\* out[final_cols]: every column bearing each selected label, in the order of the
\* selection.
Indexer(labels, final_cols, i) ==
    IF i > Len(final_cols) THEN << >>
    ELSE PositionsOf(labels, final_cols[i], 1) \o Indexer(labels, final_cols, i + 1)

\* A projector that renames the columns and removes none.
RenameOnly(table, config) ==
    [ cols |-> [ c \in 1..Len(table.cols) |-> RenameColumn(config, table.cols[c]) ],
      rows |-> table.rows ]

\* _rename_and_filter
RenameAndFilter(table, config) ==
    IF DfEmpty(table) THEN table
    ELSE LET labels == [ c \in 1..Len(table.cols) |-> RenameColumn(config, table.cols[c]) ]
             take == Indexer(labels, FinalCols(config, labels, 1), 1)
         IN [ cols |-> [ k \in 1..Len(take) |-> labels[take[k]] ],
              rows |-> [ r \in 1..Len(table.rows) |->
                           [ k \in 1..Len(take) |-> table.rows[r][take[k]] ] ] ]

\* The documents, zones and schemas the transformer is run on.
Epoch == 20

Offsets == {0 - 3, 0, 1}

ColumnSpec(s, n) == [src |-> s, name |-> n]

SchemaExample ==
    << ColumnSpec("server_stats_cpu", "CPU"),
       ColumnSpec("timestamp_query_dt", "Consultado") >>

SchemaServers ==
    << ColumnSpec("Server Name", "Servidor"),
       ColumnSpec("timestamp_query_dt", "Consultado"),
       ColumnSpec("server_stats_cpu", "CPU"),
       ColumnSpec("server_stats_ram", "RAM") >>

SchemaCameras ==
    << ColumnSpec("Server Name", "Servidor"),
       ColumnSpec("camera_name", "Camara"),
       ColumnSpec("status", "Estado"),
       ColumnSpec("timestamp_query_dt", "Consultado") >>

SchemaSeen ==
    << ColumnSpec("last_utc_dt", "Visto"),
       ColumnSpec("last_utc", "Visto UTC"),
       ColumnSpec("Server Name", "Servidor") >>

Schemas ==
    { [servers |-> SchemaExample, cameras |-> SchemaExample],
      [servers |-> SchemaServers, cameras |-> SchemaCameras],
      [servers |-> SchemaSeen, cameras |-> SchemaSeen] }

Srv1 == Val("text", 1)

StatusOk == Val("text", 3)

Scalar == Val("text", 4)

QueryTimes ==
    { << >>,
      << Entry("timestamp_query", Val("num", Epoch)) >>,
      << Entry("timestamp_query", Val("str", Epoch)) >>,
      << Entry("timestamp_query", Scalar) >> }

ExtraFields ==
    { << >>,
      << Entry("last_utc", Val("str", Epoch + 1)) >>,
      << Entry("last_utc_dt", Val("naive", Epoch + 1)) >>,
      << Entry("CPU", Val("num", 99)) >> }

\* What an entry of cameras_status can be: a map, with or without its own query
\* timestamp, or something that is no map.
CameraShapes ==
    { [val |-> Val("map", 0), data |-> << Entry("status", StatusOk) >>],
      [val |-> Val("map", 0),
       data |-> << Entry("status", StatusOk),
                   Entry("timestamp_query", Val("num", Epoch + 2)) >>],
      [val |-> Val("map", 0),
       data |-> << Entry("timestamp_query", Val("str", Epoch + 2)),
                   Entry("status", StatusOk) >>],
      [val |-> Scalar, data |-> << >>] }

CameraSeqs ==
    UNION { { [ i \in 1..n |-> [name |-> Val("text", 10 + i), val |-> f[i].val,
                                data |-> f[i].data] ] :
                f \in [1..n -> CameraShapes] } : n \in 0..MaxCams }

Shapes == {"none", "scalar", "map"}

Document(stats, cameras, query_time, extra, cams) ==
    [ id |-> Srv1,
      data |-> (IF stats = "none" THEN << >>
                ELSE << Entry("server_stats",
                              IF stats = "map" THEN Val("map", 0) ELSE Scalar) >>)
               \o (IF cameras = "none" THEN << >>
                   ELSE << Entry("cameras_status",
                                 IF cameras = "map" THEN Val("map", 0) ELSE Scalar) >>)
               \o query_time \o extra,
      stats |-> IF stats = "map" THEN << Entry("cpu", Val("num", 10)) >> ELSE << >>,
      cams |-> IF cameras = "map" THEN cams ELSE << >> ]

Documents ==
    { Document(st, cm, q, x, cs) :
        st \in Shapes, cm \in Shapes, q \in QueryTimes, x \in ExtraFields,
        cs \in CameraSeqs }

NoTables == [servers |-> << >>, cameras |-> << >>]

IdleTransform ==
    /\ tz = 0
    /\ raw_docs = << >>
    /\ columns_config = [servers |-> << >>, cameras |-> << >>]
    /\ flat = NoTables
    /\ datasets = NoTables
    /\ refixed = NoTables
    /\ tstage = "idle"

----------------------------------------------------------------------------
(* Two runs of the pipeline against the same spreadsheet *)

Runs == {1, 2}

Other(p) == 3 - p

InFlight(p) == cpc[p] \notin {"idle", "done", "failed"}

\* The servers dataset of run p: one row, its value the run's.
RunDf(p) == NormalizeDf(MakeDf(ServersA, 1, p))

\* The snapshot tab and the history tab as a run that completed alone leaves them.
SnapshotAfter(p) ==
    ApplyRequests(WriteTable(WriteTitle(Tab(TRUE, TRUE), ServersA.title, p),
                             start_row, RunDf(p).cols, RunDf(p).rows),
                  SnapshotStructureRequests(ServersA, RunDf(p), start_row))

HistoryAfter(p) ==
    ApplyRequests(WriteTable(Tab(TRUE, TRUE), 1, RunDf(p).cols, RunDf(p).rows),
                  HistoryFormatRequests(ServersA, RunDf(p), 1))

NothingRead == [header |-> FALSE, rules |-> 0]

IdleConcurrent ==
    /\ cpc = [p \in Runs |-> "idle"]
    /\ cbranch = [p \in Runs |-> NothingRead]
    /\ ctabs = [snap |-> Tab(TRUE, TRUE), hist |-> Tab(TRUE, TRUE)]
    /\ overlapped = FALSE

\* Run p goes on at `next` having made the snapshot tab s and the history tab h.
Goes(p, next, s, h) ==
    /\ cpc' = [cpc EXCEPT ![p] = next]
    /\ ctabs' = [snap |-> s, hist |-> h]

\* run_pipeline starts; nothing keeps it from starting while another run is going.
CStart ==
    \E p \in Runs :
        /\ cpc[p] = "idle"
        /\ overlapped' = (overlapped \/ InFlight(Other(p)))
        /\ Goes(p, "s_clear", ctabs.snap, ctabs.hist)
        /\ UNCHANGED cbranch
        /\ UNCHANGED << pipelineVars, backoffVars, transformVars >>

\* _reset_worksheet of update_snapshot: ws.clear
CSnapshotClear ==
    \E p \in Runs :
        /\ cpc[p] = "s_clear"
        /\ Goes(p, "s_meta", ClearValues(ctabs.snap), ctabs.hist)
        /\ UNCHANGED << cbranch, overlapped >>
        /\ UNCHANGED << pipelineVars, backoffVars, transformVars >>

\* _reset_worksheet: fetch_sheet_metadata
CSnapshotMetadata ==
    \E p \in Runs :
        /\ cpc[p] = "s_meta"
        /\ cbranch' = [cbranch EXCEPT ![p].rules = Len(ctabs.snap.rules)]
        /\ Goes(p, "s_reset", ctabs.snap, ctabs.hist)
        /\ UNCHANGED overlapped
        /\ UNCHANGED << pipelineVars, backoffVars, transformVars >>

\* _reset_worksheet: the batch; a delete of a rule that is no longer there is refused
\* with a 400, which is not retried.
CSnapshotReset ==
    \E p \in Runs :
        /\ cpc[p] = "s_reset"
        /\ IF RequestsValid(ctabs.snap, ResetRequests(cbranch[p].rules))
           THEN Goes(p, "s_values",
                     ApplyRequests(ctabs.snap, ResetRequests(cbranch[p].rules)), ctabs.hist)
           ELSE Goes(p, "failed", ctabs.snap, ctabs.hist)
        /\ UNCHANGED << cbranch, overlapped >>
        /\ UNCHANGED << pipelineVars, backoffVars, transformVars >>

\* _write_snapshot_values
CSnapshotValues ==
    \E p \in Runs :
        /\ cpc[p] = "s_values"
        /\ Goes(p, "s_structure",
                WriteTable(WriteTitle(ctabs.snap, ServersA.title, p),
                           start_row, RunDf(p).cols, RunDf(p).rows), ctabs.hist)
        /\ UNCHANGED << cbranch, overlapped >>
        /\ UNCHANGED << pipelineVars, backoffVars, transformVars >>

\* _apply_snapshot_structure_and_styles, then append_history up to the header check.
CSnapshotStructure ==
    \E p \in Runs :
        /\ cpc[p] = "s_structure"
        /\ Goes(p, "h_check",
                ApplyRequests(ctabs.snap,
                              SnapshotStructureRequests(ServersA, RunDf(p), start_row)),
                ctabs.hist)
        /\ UNCHANGED << cbranch, overlapped >>
        /\ UNCHANGED << pipelineVars, backoffVars, transformVars >>

\* append_history: header_row = ws.get_values("A1:Z1")
CHeaderCheck ==
    \E p \in Runs :
        /\ cpc[p] = "h_check"
        /\ cbranch' = [cbranch EXCEPT ![p].header = HasHeader(ctabs.hist)]
        /\ Goes(p, IF HasHeader(ctabs.hist) THEN "h_append" ELSE "h_clear",
                ctabs.snap, ctabs.hist)
        /\ UNCHANGED overlapped
        /\ UNCHANGED << pipelineVars, backoffVars, transformVars >>

CHistoryClear ==
    \E p \in Runs :
        /\ cpc[p] = "h_clear"
        /\ Goes(p, "h_meta", ctabs.snap, ClearValues(ctabs.hist))
        /\ UNCHANGED << cbranch, overlapped >>
        /\ UNCHANGED << pipelineVars, backoffVars, transformVars >>

CHistoryMetadata ==
    \E p \in Runs :
        /\ cpc[p] = "h_meta"
        /\ cbranch' = [cbranch EXCEPT ![p].rules = Len(ctabs.hist.rules)]
        /\ Goes(p, "h_reset", ctabs.snap, ctabs.hist)
        /\ UNCHANGED overlapped
        /\ UNCHANGED << pipelineVars, backoffVars, transformVars >>

CHistoryReset ==
    \E p \in Runs :
        /\ cpc[p] = "h_reset"
        /\ IF RequestsValid(ctabs.hist, ResetRequests(cbranch[p].rules))
           THEN Goes(p, "h_values", ctabs.snap,
                     ApplyRequests(ctabs.hist, ResetRequests(cbranch[p].rules)))
           ELSE Goes(p, "failed", ctabs.snap, ctabs.hist)
        /\ UNCHANGED << cbranch, overlapped >>
        /\ UNCHANGED << pipelineVars, backoffVars, transformVars >>

\* append_history, no header: header and rows at A1.
CHistoryValues ==
    \E p \in Runs :
        /\ cpc[p] = "h_values"
        /\ Goes(p, "h_formats", ctabs.snap,
                WriteTable(ctabs.hist, 1, RunDf(p).cols, RunDf(p).rows))
        /\ UNCHANGED << cbranch, overlapped >>
        /\ UNCHANGED << pipelineVars, backoffVars, transformVars >>

CHistoryFormats ==
    \E p \in Runs :
        /\ cpc[p] = "h_formats"
        /\ Goes(p, "done", ctabs.snap,
                ApplyRequests(ctabs.hist, HistoryFormatRequests(ServersA, RunDf(p), 1)))
        /\ UNCHANGED << cbranch, overlapped >>
        /\ UNCHANGED << pipelineVars, backoffVars, transformVars >>

\* append_history, header found: ws.append_rows
CHistoryAppend ==
    \E p \in Runs :
        /\ cpc[p] = "h_append"
        /\ Goes(p, "done", ctabs.snap, AppendRows(ctabs.hist, RunDf(p).rows))
        /\ UNCHANGED << cbranch, overlapped >>
        /\ UNCHANGED << pipelineVars, backoffVars, transformVars >>

----------------------------------------------------------------------------
(* The run *)

\* The spreadsheet before the first run: the two snapshot tabs were made by hand,
\* blank and of the default size (smaller than the working area); the history tabs
\* and the dashboard do not exist yet.
InitialSheet ==
    [ n \in TabNames |->
        IF n \in {"Servidores", "Camaras"} THEN Tab(TRUE, FALSE) ELSE Tab(FALSE, FALSE) ]

Init ==
    /\ sheet = InitialSheet
    /\ run = 0
    /\ step = "idle"
    /\ pc = "begin"
    /\ attempt = 1
    /\ applied = FALSE
    /\ cfg = NoConfig
    /\ df = [servers |-> EmptyDf, cameras |-> EmptyDf]
    /\ ws = ""
    /\ nrules = 0
    /\ branch = "none"
    /\ calls = << >>
    /\ before = Tab(FALSE, FALSE)
    /\ result = "none"
    /\ failure = NoFailure
    /\ lost = 0
    /\ script = << >>
    /\ invocations = 0
    /\ sleeps = 0
    /\ outcome = "idle"
    /\ IdleTransform
    /\ IdleConcurrent

\* main() -> run_pipeline(): a new run, with the config the process loaded.
RunStart ==
    /\ step = "idle"
    /\ run < MaxRuns
    /\ run' = run + 1
    /\ step' = "fetch"
    /\ pc' = "begin"
    /\ \E c \in Configs : cfg' = c
    /\ df' = [servers |-> EmptyDf, cameras |-> EmptyDf]
    /\ result' = "none"
    /\ failure' = NoFailure
    /\ calls' = << >>
    /\ branch' = "none"
    /\ ws' = ""
    /\ nrules' = 0
    /\ before' = Tab(FALSE, FALSE)
    /\ UNCHANGED << sheet, attempt, applied, lost >>
    /\ UNCHANGED backoffVars
    /\ UNCHANGED << transformVars, concurrentVars >>

\* FirestoreService() / get_documents() / SheetsService() raise.
FetchFails ==
    /\ step = "fetch"
    /\ Raise(0, FALSE)
    /\ UNCHANGED << sheet, calls, lost, run, cfg, df, ws, nrules, branch, before >>
    /\ UNCHANGED backoffVars
    /\ UNCHANGED << transformVars, concurrentVars >>

\* if not raw_docs: return
FetchNoDocuments ==
    /\ step = "fetch"
    /\ step' = "idle"
    /\ result' = "nodata"
    /\ UNCHANGED << sheet, calls, lost, run, cfg, df, ws, nrules, branch, before, pc,
                    attempt, applied, failure >>
    /\ UNCHANGED backoffVars
    /\ UNCHANGED << transformVars, concurrentVars >>

\* raw_docs -> transformer.process_data(raw_docs): one servers row per document,
\* one cameras row per document when the documents carry a camera, none otherwise.
FetchAndTransform ==
    /\ step = "fetch"
    /\ \E ns \in 1..MaxRows : \E nc \in {0, ns} :
          df' = [ servers |-> MakeDf(cfg.servers, ns, run),
                  cameras |-> MakeDf(cfg.cameras, nc, run) ]
    /\ Local("return")
    /\ UNCHANGED << run, cfg, ws, nrules, branch, before >>
    /\ UNCHANGED backoffVars
    /\ UNCHANGED << transformVars, concurrentVars >>

\* update_snapshot, up to the call of _get_or_create_worksheet.
UpdateSnapshotBegin ==
    /\ step \in SnapshotSteps
    /\ pc = "begin"
    /\ LET tab_config == cfg[StepEntity(step)] IN
          /\ ws' = tab_config.tab_name
          /\ before' = sheet[tab_config.tab_name]
          /\ IF DfEmpty(df[StepEntity(step)]) THEN Advance("return") ELSE Advance("lookup")
    /\ calls' = << >>
    /\ branch' = "none"
    /\ nrules' = 0
    /\ UNCHANGED << sheet, lost, run, cfg, df >>
    /\ UNCHANGED backoffVars
    /\ UNCHANGED << transformVars, concurrentVars >>

\* append_history, up to the call of _get_or_create_worksheet.
AppendHistoryBegin ==
    /\ step \in HistorySteps
    /\ pc = "begin"
    /\ LET tab_config == cfg[StepEntity(step)] IN
          IF DfEmpty(df[StepEntity(step)]) \/ tab_config.history_tab = ""
          THEN /\ Advance("return")
               /\ branch' = "skip"
               /\ UNCHANGED << ws, before >>
          ELSE /\ Advance("lookup")
               /\ branch' = "none"
               /\ ws' = tab_config.history_tab
               /\ before' = sheet[tab_config.history_tab]
    /\ calls' = << >>
    /\ nrules' = 0
    /\ UNCHANGED << sheet, lost, run, cfg, df >>
    /\ UNCHANGED backoffVars
    /\ UNCHANGED << transformVars, concurrentVars >>

\* _get_or_create_worksheet: self.sh.worksheet(name), then the size checks.
GetOrCreateLookup ==
    /\ pc = "lookup"
    /\ IF sheet[ws].exists
       THEN Local(SizeCheck(sheet[ws], step))
       ELSE Local("add_worksheet")
    /\ UNCHANGED << run, cfg, df, ws, nrules, branch, before >>
    /\ UNCHANGED backoffVars
    /\ UNCHANGED << transformVars, concurrentVars >>

\* self.sh.add_worksheet(title=name, rows=rows, cols=cols)
AddWorksheet ==
    /\ Direct("add_worksheet", Tab(TRUE, TRUE), ~sheet[ws].exists, AfterWorksheet(step))
    /\ UNCHANGED << run, cfg, df, ws, nrules, branch, before >>
    /\ UNCHANGED backoffVars
    /\ UNCHANGED << transformVars, concurrentVars >>

\* ws.resize(rows=rows)
ResizeRows ==
    /\ Wrapped("resize_rows", [sheet[ws] EXCEPT !.tall = TRUE], TRUE,
               IF ~sheet[ws].wide THEN "resize_cols" ELSE AfterWorksheet(step))
    /\ UNCHANGED << run, cfg, df, ws, nrules, branch, before >>
    /\ UNCHANGED backoffVars
    /\ UNCHANGED << transformVars, concurrentVars >>

\* ws.resize(cols=cols)
ResizeCols ==
    /\ Wrapped("resize_cols", [sheet[ws] EXCEPT !.wide = TRUE], TRUE,
               AfterWorksheet(step))
    /\ UNCHANGED << run, cfg, df, ws, nrules, branch, before >>
    /\ UNCHANGED backoffVars
    /\ UNCHANGED << transformVars, concurrentVars >>

\* _reset_worksheet: ws.clear
ResetClear ==
    /\ Wrapped("clear", ClearValues(sheet[ws]), TRUE, "fetch_meta")
    /\ UNCHANGED << run, cfg, df, ws, nrules, branch, before >>
    /\ UNCHANGED backoffVars
    /\ UNCHANGED << transformVars, concurrentVars >>

\* _reset_worksheet: fetch_sheet_metadata, cond_formats of this sheet.
ResetFetchMetadata ==
    /\ pc = "fetch_meta"
    /\ nrules' = Len(sheet[ws].rules)
    /\ Local("reset_batch")
    /\ UNCHANGED << run, cfg, df, ws, branch, before >>
    /\ UNCHANGED backoffVars
    /\ UNCHANGED << transformVars, concurrentVars >>

\* _reset_worksheet: the batch of deletes, unmerge, format and validation reset.
ResetBatch ==
    /\ Wrapped("reset_batch", ApplyRequests(sheet[ws], ResetRequests(nrules)),
               RequestsValid(sheet[ws], ResetRequests(nrules)), AfterReset(step))
    /\ UNCHANGED << run, cfg, df, ws, nrules, branch, before >>
    /\ UNCHANGED backoffVars
    /\ UNCHANGED << transformVars, concurrentVars >>

\* _write_snapshot_values: title, metadata and the table in one values batch.
WriteSnapshotValues ==
    /\ step \in SnapshotSteps
    /\ LET tab_config == cfg[StepEntity(step)]
           normalized_df == SnapshotPayload(df[StepEntity(step)])
       IN Wrapped("values",
                  WriteTable(WriteTitle(sheet[ws], tab_config.title, run),
                             start_row, normalized_df.cols, normalized_df.rows),
                  TRUE, "structure")
    /\ UNCHANGED << run, cfg, df, ws, nrules, branch, before >>
    /\ UNCHANGED backoffVars
    /\ UNCHANGED << transformVars, concurrentVars >>

\* _apply_snapshot_structure_and_styles: the requests are built, then sent as one
\* structure batch; an exception while building leaves the method before the call.
ApplySnapshotStructure ==
    /\ step \in SnapshotSteps
    /\ LET reqs == SnapshotStructureRequests(cfg[StepEntity(step)],
                                             SnapshotPayload(df[StepEntity(step)]), start_row)
       IN IF ThresholdRaises(SnapshotPayload(df[StepEntity(step)]), cfg[StepEntity(step)])
          THEN /\ pc = "structure"
               /\ Raise(0, FALSE)
               /\ UNCHANGED << sheet, calls, lost >>
          ELSE Wrapped("structure", ApplyRequests(sheet[ws], reqs),
                       RequestsValid(sheet[ws], reqs), "return")
    /\ UNCHANGED << run, cfg, df, ws, nrules, branch, before >>
    /\ UNCHANGED backoffVars
    /\ UNCHANGED << transformVars, concurrentVars >>

\* append_history: the header check that picks the branch.
HeaderCheck ==
    /\ pc = "header_check"
    /\ IF HasHeader(sheet[ws])
       THEN branch' = "append" /\ Local("append")
       ELSE branch' = "init" /\ Local("clear")
    /\ UNCHANGED << run, cfg, df, ws, nrules, before >>
    /\ UNCHANGED backoffVars
    /\ UNCHANGED << transformVars, concurrentVars >>

\* append_history, no header: header and all rows written at A1.
HistoryInitValues ==
    /\ step \in HistorySteps
    /\ LET df_history == HistoryPayload(df[StepEntity(step)])
       IN Wrapped("init_values",
                  WriteTable(sheet[ws], 1, df_history.cols, df_history.rows),
                  TRUE, "init_formats")
    /\ UNCHANGED << run, cfg, df, ws, nrules, branch, before >>
    /\ UNCHANGED backoffVars
    /\ UNCHANGED << transformVars, concurrentVars >>

\* append_history, no header: _apply_history_styles_and_formats.
HistoryInitFormats ==
    /\ step \in HistorySteps
    /\ LET reqs == HistoryFormatRequests(cfg[StepEntity(step)],
                                         HistoryPayload(df[StepEntity(step)]), 1)
       IN Wrapped("init_formats", ApplyRequests(sheet[ws], reqs),
                  RequestsValid(sheet[ws], reqs), "return")
    /\ UNCHANGED << run, cfg, df, ws, nrules, branch, before >>
    /\ UNCHANGED backoffVars
    /\ UNCHANGED << transformVars, concurrentVars >>

\* append_history, header present: ws.append_rows(payload_rows) with backoff.
AppendHistoryRows ==
    /\ step \in HistorySteps
    /\ Wrapped("append",
               AppendRows(sheet[ws], HistoryPayload(df[StepEntity(step)]).rows),
               TRUE, "return")
    /\ UNCHANGED << run, cfg, df, ws, nrules, branch, before >>
    /\ UNCHANGED backoffVars
    /\ UNCHANGED << transformVars, concurrentVars >>

\* A read (worksheet lookup, get_values, fetch_sheet_metadata) raises.
ReadFails ==
    /\ step \notin {"idle", "fetch"}
    /\ pc \in ReadSites
    /\ Raise(503, FALSE)
    /\ UNCHANGED << sheet, calls, lost, run, cfg, df, ws, nrules, branch, before >>
    /\ UNCHANGED backoffVars
    /\ UNCHANGED << transformVars, concurrentVars >>

\* DashboardBuilder.build -> _prepare_worksheet("Dashboard")
DashboardBegin ==
    /\ step = "dashboard"
    /\ pc = "begin"
    /\ ws' = "Dashboard"
    /\ before' = sheet["Dashboard"]
    /\ calls' = << >>
    /\ branch' = "none"
    /\ nrules' = 0
    /\ Advance("d_lookup")
    /\ UNCHANGED << sheet, lost, run, cfg, df >>
    /\ UNCHANGED backoffVars
    /\ UNCHANGED << transformVars, concurrentVars >>

\* _prepare_worksheet: self.sh.worksheet(name)
DashboardLookup ==
    /\ pc = "d_lookup"
    /\ IF sheet[ws].exists THEN Local("d_clear") ELSE Local("d_add")
    /\ UNCHANGED << run, cfg, df, ws, nrules, branch, before >>
    /\ UNCHANGED backoffVars
    /\ UNCHANGED << transformVars, concurrentVars >>

\* _prepare_worksheet: self.sh.add_worksheet(title=name, rows=100, cols=35)
DashboardAdd ==
    /\ Direct("d_add", Tab(TRUE, FALSE), ~sheet[ws].exists, "d_clear")
    /\ UNCHANGED << run, cfg, df, ws, nrules, branch, before >>
    /\ UNCHANGED backoffVars
    /\ UNCHANGED << transformVars, concurrentVars >>

\* _prepare_worksheet: ws.clear()
DashboardClear ==
    /\ Direct("d_clear", ClearValues(sheet[ws]), TRUE, "d_meta")
    /\ UNCHANGED << run, cfg, df, ws, nrules, branch, before >>
    /\ UNCHANGED backoffVars
    /\ UNCHANGED << transformVars, concurrentVars >>

\* _prepare_worksheet: fetch_sheet_metadata, charts of this sheet.
DashboardFetchMetadata ==
    /\ pc = "d_meta"
    /\ nrules' = sheet[ws].charts
    /\ Local("d_prepare")
    /\ UNCHANGED << run, cfg, df, ws, branch, before >>
    /\ UNCHANGED backoffVars
    /\ UNCHANGED << transformVars, concurrentVars >>

\* _prepare_worksheet: self.sh.batch_update({"requests": requests})
DashboardPrepare ==
    /\ Direct("d_prepare", ApplyRequests(sheet[ws], DashboardPrepareRequests(nrules)),
              RequestsValid(sheet[ws], DashboardPrepareRequests(nrules)), "d_values")
    /\ UNCHANGED << run, cfg, df, ws, nrules, branch, before >>
    /\ UNCHANGED backoffVars
    /\ UNCHANGED << transformVars, concurrentVars >>

\* build: ws.batch_update(value_batch, value_input_option="USER_ENTERED")
DashboardValues ==
    /\ Direct("d_values",
              WriteTable(WriteTitle(sheet[ws], "DASHBOARD OPERATIVO - RAPTOR", 0),
                         4, << "Fecha", "Valor" >>, << >>),
              TRUE, "d_structure")
    /\ UNCHANGED << run, cfg, df, ws, nrules, branch, before >>
    /\ UNCHANGED backoffVars
    /\ UNCHANGED << transformVars, concurrentVars >>

\* build: self.sh.batch_update({"requests": request_batch})
DashboardStructure ==
    /\ Direct("d_structure", ApplyRequests(sheet[ws], DashboardStructureRequests),
              RequestsValid(sheet[ws], DashboardStructureRequests), "return")
    /\ UNCHANGED << run, cfg, df, ws, nrules, branch, before >>
    /\ UNCHANGED backoffVars
    /\ UNCHANGED << transformVars, concurrentVars >>

Next ==
    \/ RunStart
    \/ FetchFails
    \/ FetchNoDocuments
    \/ FetchAndTransform
    \/ UpdateSnapshotBegin
    \/ AppendHistoryBegin
    \/ GetOrCreateLookup
    \/ AddWorksheet
    \/ ResizeRows
    \/ ResizeCols
    \/ ResetClear
    \/ ResetFetchMetadata
    \/ ResetBatch
    \/ WriteSnapshotValues
    \/ ApplySnapshotStructure
    \/ HeaderCheck
    \/ HistoryInitValues
    \/ HistoryInitFormats
    \/ AppendHistoryRows
    \/ ReadFails
    \/ DashboardBegin
    \/ DashboardLookup
    \/ DashboardAdd
    \/ DashboardClear
    \/ DashboardFetchMetadata
    \/ DashboardPrepare
    \/ DashboardValues
    \/ DashboardStructure

Spec == Init /\ [][Next]_vars

----------------------------------------------------------------------------
(* _execute_with_backoff on its own: func answers script[k] at its k-th invocation *)

Statuses == {200, 400, 429, 500, 503}

InitBackoff ==
    /\ sheet = InitialSheet
    /\ run = 0
    /\ step = "idle"
    /\ pc = "begin"
    /\ attempt = 1
    /\ applied = FALSE
    /\ cfg = NoConfig
    /\ df = [servers |-> EmptyDf, cameras |-> EmptyDf]
    /\ ws = ""
    /\ nrules = 0
    /\ branch = "none"
    /\ calls = << >>
    /\ before = Tab(FALSE, FALSE)
    /\ result = "none"
    /\ failure = NoFailure
    /\ lost = 0
    /\ script \in [1..max_attempts -> Statuses]
    /\ invocations = 0
    /\ sleeps = 0
    /\ outcome = "running"
    /\ IdleTransform
    /\ IdleConcurrent

\* One pass of `for attempt in range(1, max_attempts + 1)`; the loop running out
\* falls through to `return None`.
BackoffPass ==
    /\ outcome = "running"
    /\ IF attempt > max_attempts
       THEN /\ outcome' = "returned"
            /\ UNCHANGED << attempt, invocations, sleeps >>
       ELSE /\ invocations' = invocations + 1
            /\ CASE BackoffStep(attempt, script[attempt]) = "return" ->
                       /\ outcome' = "returned"
                       /\ UNCHANGED << attempt, sleeps >>
                 [] BackoffStep(attempt, script[attempt]) = "raise" ->
                       /\ outcome' = "raised"
                       /\ UNCHANGED << attempt, sleeps >>
                 [] OTHER ->
                       /\ sleeps' = sleeps + 1
                       /\ attempt' = attempt + 1
                       /\ outcome' = outcome
    /\ UNCHANGED << sheet, run, step, pc, applied, cfg, df, ws, nrules, branch,
                    calls, before, result, failure, lost, script >>
    /\ UNCHANGED << transformVars, concurrentVars >>

NextBackoff == BackoffPass

SpecBackoff == InitBackoff /\ [][NextBackoff]_vars

----------------------------------------------------------------------------
(* DataTransformer.process_data alone *)

IdlePipeline ==
    /\ sheet = InitialSheet
    /\ run = 0
    /\ step = "idle"
    /\ pc = "begin"
    /\ attempt = 1
    /\ applied = FALSE
    /\ cfg = NoConfig
    /\ df = [servers |-> EmptyDf, cameras |-> EmptyDf]
    /\ ws = ""
    /\ nrules = 0
    /\ branch = "none"
    /\ calls = << >>
    /\ before = Tab(FALSE, FALSE)
    /\ result = "none"
    /\ failure = NoFailure
    /\ lost = 0

IdleBackoff ==
    /\ script = << >>
    /\ invocations = 0
    /\ sleeps = 0
    /\ outcome = "idle"

InitTransform ==
    /\ IdlePipeline
    /\ IdleBackoff
    /\ IdleConcurrent
    /\ tz \in Offsets
    /\ raw_docs \in { << d >> : d \in Documents }
    /\ columns_config \in Schemas
    /\ flat = NoTables
    /\ datasets = NoTables
    /\ refixed = NoTables
    /\ tstage = "start"

\* process_data: the loop over raw_docs.
FlattenDocs ==
    /\ tstage = "start"
    /\ flat' = FlattenDocsFrom(raw_docs, tz, 1)
    /\ tstage' = "flat"
    /\ UNCHANGED << tz, raw_docs, columns_config, datasets, refixed >>
    /\ UNCHANGED << pipelineVars, backoffVars, concurrentVars >>

\* process_data: the two DataFrames, renamed and filtered.
ProjectColumns ==
    /\ tstage = "flat"
    /\ datasets' = [ servers |-> RenameAndFilter(DataFrame(flat.servers),
                                                 columns_config.servers),
                     cameras |-> RenameAndFilter(DataFrame(flat.cameras),
                                                 columns_config.cameras) ]
    /\ tstage' = "done"
    /\ UNCHANGED << tz, raw_docs, columns_config, flat, refixed >>
    /\ UNCHANGED << pipelineVars, backoffVars, concurrentVars >>

\* _fix_timestamps applied to every row it has already produced.
FixAgain ==
    /\ tstage = "done"
    /\ refixed' = [ servers |-> [ i \in 1..Len(flat.servers) |->
                                    FixTimestamps(flat.servers[i], tz) ],
                    cameras |-> [ i \in 1..Len(flat.cameras) |->
                                    FixTimestamps(flat.cameras[i], tz) ] ]
    /\ tstage' = "again"
    /\ UNCHANGED << tz, raw_docs, columns_config, flat, datasets >>
    /\ UNCHANGED << pipelineVars, backoffVars, concurrentVars >>

NextTransform == FlattenDocs \/ ProjectColumns \/ FixAgain

SpecTransform == InitTransform /\ [][NextTransform]_vars

----------------------------------------------------------------------------
(* DataTransformer.process_data on lists of documents *)

MaxDocs == 3

MaxChildren == 2

\* Entries of cameras_status: a map or something that is no map.
ChildShapes ==
    { [val |-> Val("map", 0), data |-> << Entry("status", StatusOk) >>],
      [val |-> Scalar, data |-> << >>] }

ChildSeqs ==
    UNION { { [ i \in 1..n |-> [name |-> Val("text", 10 + i), val |-> f[i].val,
                                data |-> f[i].data] ] :
                f \in [1..n -> ChildShapes] } : n \in 0..MaxChildren }

\* Documents without cameras_status, with one that is no map, with a map.
ListedDocuments ==
    { Document("none", "none", << >>, << >>, << >>),
      Document("none", "scalar", << >>, << >>, << >>) }
    \cup { Document("none", "map", << >>, << >>, cs) : cs \in ChildSeqs }

\* raw_docs: (doc_id, data) pairs, the ids all different.
DocumentLists ==
    UNION { { [ i \in 1..n |-> [f[i] EXCEPT !.id = Val("text", 20 + i)] ] :
                f \in [1..n -> ListedDocuments] } : n \in 0..MaxDocs }

InitFlattenLists ==
    /\ IdlePipeline
    /\ IdleBackoff
    /\ IdleConcurrent
    /\ tz = 0
    /\ raw_docs \in DocumentLists
    /\ columns_config = [servers |-> SchemaServers, cameras |-> SchemaCameras]
    /\ flat = NoTables
    /\ datasets = NoTables
    /\ refixed = NoTables
    /\ tstage = "start"

NextFlattenLists == FlattenDocs \/ ProjectColumns \/ FixAgain

SpecFlattenLists == InitFlattenLists /\ [][NextFlattenLists]_vars

----------------------------------------------------------------------------
(* Two runs at once *)

InitConcurrent ==
    /\ IdlePipeline
    /\ IdleBackoff
    /\ IdleTransform
    /\ cpc = [p \in Runs |-> "idle"]
    /\ cbranch = [p \in Runs |-> NothingRead]
    /\ \E s \in {Tab(TRUE, TRUE), SnapshotAfter(3)} :
          \E h \in {Tab(TRUE, TRUE), HistoryAfter(3)} :
             ctabs = [snap |-> s, hist |-> h]
    /\ overlapped = FALSE

NextConcurrent ==
    \/ CStart
    \/ CSnapshotClear
    \/ CSnapshotMetadata
    \/ CSnapshotReset
    \/ CSnapshotValues
    \/ CSnapshotStructure
    \/ CHeaderCheck
    \/ CHistoryClear
    \/ CHistoryMetadata
    \/ CHistoryReset
    \/ CHistoryValues
    \/ CHistoryFormats
    \/ CHistoryAppend

SpecConcurrent == InitConcurrent /\ [][NextConcurrent]_vars

----------------------------------------------------------------------------
(* The header check of append_history alone *)

\* Tabs the header check can meet: with or without a title in A1, the table's header
\* in row 1, in row 6 or nowhere, with or without rows, formats and merges.
HeaderCheckTabs ==
    { [Tab(TRUE, TRUE) EXCEPT !.title = ti, !.hrow = h,
                              !.header = IF h = 0 THEN << >> ELSE << "Servidor", "CPU" >>,
                              !.data = d, !.stamp = st, !.merges = m, !.fmts = f] :
        ti \in {"", "Servidores"}, h \in {0, 1, start_row},
        d \in { << >>, << << 1, 1 >> >>, << << 1, 1 >>, << 2, 1 >> >> },
        st \in {0, 1}, m \in { {}, {<< 1, 1, 1, 2 >>} },
        f \in { {}, {[style |-> "HEADER_BLUE", range |-> << 1, 1, 1, 2 >>]} } }

InitHeaderCheck ==
    /\ \E t \in HeaderCheckTabs :
          /\ (t.title # "") => (t.hrow # 1)
          /\ sheet = [InitialSheet EXCEPT !["Hist_Servidores"] = t]
          /\ before = t
    /\ run = 1
    /\ step = "servers_history"
    /\ pc = "header_check"
    /\ attempt = 1
    /\ applied = FALSE
    /\ cfg = [servers |-> ServersA, cameras |-> CamerasA]
    /\ df = [servers |-> MakeDf(ServersA, 1, 1), cameras |-> EmptyDf]
    /\ ws = "Hist_Servidores"
    /\ nrules = 0
    /\ branch = "none"
    /\ calls = << >>
    /\ result = "none"
    /\ failure = NoFailure
    /\ lost = 0
    /\ IdleBackoff
    /\ IdleTransform
    /\ IdleConcurrent

NextHeaderCheck == HeaderCheck

SpecHeaderCheck == InitHeaderCheck /\ [][NextHeaderCheck]_vars

----------------------------------------------------------------------------
(* The structure write of update_snapshot alone *)

Threshold == 80

\* What a cell of a metric column can hold, and the cell of the "Servidor" column.
MetricCells == {NaN, Threshold - 1, Threshold, Threshold + 5}

KeyCells == {NaN, 1}

Operators ==
    {"", ">", ">=", "<", "<=", "!=", "==", "between", "not_between", "~", "null"}

\* A tab_config of one key column and one metric column with a threshold.
StructureConfig(key_name, format, operator, merge) ==
    [ tab_name |-> "Servidores", title |-> "Servidores",
      history_tab |-> "Hist_Servidores", merge_column |-> merge,
      columns |-> << Col(key_name, "TEXT", "", 0),
                     Col("CPU", format, operator, Threshold) >> ]

RowSeqs(cells, n) == [1..n -> cells]

StructureTables(key_name) ==
    { [cols |-> << key_name >>, rows |-> << << 1 >> >>] }
    \cup UNION { { [cols |-> << key_name, "CPU" >>, rows |-> r] :
                     r \in RowSeqs(KeyCells \X MetricCells, n) } : n \in 1..MaxRows }

\* The merge column of the documented example: the values A, A, A, B, B, C.
MergeExample ==
    [ cols |-> << "Servidor", "CPU" >>,
      rows |-> << << 1, Threshold >>, << 1, Threshold >>, << 1, Threshold >>,
                  << 2, Threshold >>, << 2, Threshold >>, << 3, Threshold >> >> ]

StructureInputs ==
    UNION { { [config |-> StructureConfig(k, "NUMBER", o, ""), table |-> d] :
                o \in Operators, d \in StructureTables(k) } :
            k \in {"Servidor", "Camara"} }
    \cup { [config |-> StructureConfig("Servidor", "TEXT", "!=", ""), table |-> d] :
             d \in StructureTables("Servidor") }
    \cup { [config |-> StructureConfig("Servidor", "NUMBER", ">", "Servidor"),
            table |-> MergeExample] }

\* update_snapshot after its values write: the tab was reset and holds the title,
\* the metadata and the table; the structure batch is next.
InitStructure ==
    /\ \E i \in StructureInputs :
          /\ cfg = [servers |-> i.config, cameras |-> CamerasA]
          /\ df = [servers |-> i.table, cameras |-> EmptyDf]
          /\ sheet = [InitialSheet EXCEPT !["Servidores"] =
                        WriteTable(WriteTitle(Tab(TRUE, TRUE), i.config.title, 1),
                                   start_row, NormalizeDf(i.table).cols,
                                   NormalizeDf(i.table).rows)]
    /\ before = Tab(TRUE, TRUE)
    /\ run = 1
    /\ step = "servers_snapshot"
    /\ pc = "structure"
    /\ attempt = 1
    /\ applied = FALSE
    /\ ws = "Servidores"
    /\ nrules = 0
    /\ branch = "none"
    /\ calls = << "clear", "reset_batch", "values" >>
    /\ result = "none"
    /\ failure = NoFailure
    /\ lost = 0
    /\ IdleBackoff
    /\ IdleTransform
    /\ IdleConcurrent

NextStructure == ApplySnapshotStructure

SpecStructure == InitStructure /\ [][NextStructure]_vars

\* The value of the cell at sheet row r, column c of a tab.
CellAt(t, r, c) ==
    IF r > t.hrow /\ r <= t.hrow + Len(t.data) /\ c >= 1 /\ c <= Len(t.data[r - t.hrow])
    THEN t.data[r - t.hrow][c]
    ELSE EmptyCell

\* {anchor_cell}{operator}{value_num} as the spreadsheet evaluates it on a number.
Compare(operator, x, v) ==
    CASE operator = ">" -> x > v
      [] operator = ">=" -> x >= v
      [] operator = "<" -> x < v
      [] operator = "<=" -> x <= v
      [] OTHER -> FALSE

\* The custom formula of a rule at sheet row r: the row references of the anchors
\* move with the row, an empty cell is equal to "".
FormulaHolds(t, formula, r) ==
    CASE formula.kind = "compare_non_empty" ->
            /\ CellAt(t, r, formula.server) # EmptyCell
            /\ CellAt(t, r, formula.cell) # EmptyCell
            /\ Compare(formula.op, CellAt(t, r, formula.cell), formula.value)
      [] formula.kind \in {"neq", "neq_trim_text"} ->
            /\ CellAt(t, r, formula.server) # EmptyCell
            /\ CellAt(t, r, formula.cell) # formula.value
      [] OTHER -> FALSE

\* The cell at row r, column c takes the format of a conditional rule of the tab.
Flagged(t, r, c) ==
    \E i \in 1..Len(t.rules) :
        /\ Within(<< r, c, r, c >>, t.rules[i].range)
        /\ FormulaHolds(t, t.rules[i].formula, r)

----------------------------------------------------------------------------
(* append_history on a history tab that has grown over many runs *)

\* Numbers of rows a history tab holds after earlier runs appended to it: one, and
\* the heights around the last row of the working area.
GrownHeights == {1, max_rows - 3, max_rows - 2, max_rows - 1}

\* The servers history after runs that initialized it and appended k rows in all.
GrownHistory(k) ==
    ApplyRequests(WriteTable(Tab(TRUE, TRUE), 1, ColumnNames(ServersA.columns),
                             [ i \in 1..k |-> << 1, 1 >> ]),
                  HistoryFormatRequests(ServersA, MakeDf(ServersA, 1, 1), 1))

\* The table without its column c: what _rename_and_filter returns when no row
\* carries the field of that declared column (final_cols keeps the names present).
WithoutColumn(d, c) ==
    [ cols |-> SubSeq(d.cols, 1, c - 1) \o SubSeq(d.cols, c + 1, Len(d.cols)),
      rows |-> [ i \in 1..Len(d.rows) |->
                   SubSeq(d.rows[i], 1, c - 1)
                   \o SubSeq(d.rows[i], c + 1, Len(d.rows[i])) ] ]

\* The datasets of the later run: every declared column present, or one absent.
GrowthTables ==
    UNION { { MakeDf(ServersA, n, 2), WithoutColumn(MakeDf(ServersA, n, 2), 2) } :
              n \in 1..MaxRows }

InitGrowth ==
    /\ \E k \in GrownHeights :
          sheet = [InitialSheet EXCEPT !["Hist_Servidores"] = GrownHistory(k)]
    /\ \E d \in GrowthTables :
          df = [servers |-> d, cameras |-> EmptyDf]
    /\ cfg = [servers |-> ServersA, cameras |-> CamerasA]
    /\ before = Tab(FALSE, FALSE)
    /\ run = 2
    /\ step = "servers_history"
    /\ pc = "begin"
    /\ attempt = 1
    /\ applied = FALSE
    /\ ws = "Servidores"
    /\ nrules = 0
    /\ branch = "none"
    /\ calls = << >>
    /\ result = "none"
    /\ failure = NoFailure
    /\ lost = 0
    /\ IdleBackoff
    /\ IdleTransform
    /\ IdleConcurrent

NextGrowth ==
    \/ AppendHistoryBegin
    \/ GetOrCreateLookup
    \/ HeaderCheck
    \/ AppendHistoryRows
    \/ ReadFails

SpecGrowth == InitGrowth /\ [][NextGrowth]_vars

----------------------------------------------------------------------------
(* Properties *)

HistoryTabs == {"Hist_Servidores", "Hist_Camaras"}

IsPrefix(a, b) == Len(a) <= Len(b) /\ SubSeq(b, 1, Len(a)) = a

\* update_snapshot of the entity has just returned to run_pipeline.
SnapshotReturned == pc = "begin" /\ step \in HistorySteps

\* append_history has just returned to run_pipeline, and the entity it was for.
HistoryReturned == pc = "begin" /\ step \in {"cameras_snapshot", "dashboard"}

HistoryEntity == IF step = "cameras_snapshot" THEN "servers" ELSE "cameras"

\* The entity whose history tab the current worksheet is.
WsEntity == IF ws = "Hist_Servidores" THEN "servers" ELSE "cameras"

\* The calls _get_or_create_worksheet may issue before the method's own calls.
WorksheetCalls == {"add_worksheet", "resize_rows", "resize_cols"}

\* `log` is calls of _get_or_create_worksheet followed by exactly `own`.
CallsAre(log, own) ==
    /\ Len(log) >= Len(own)
    /\ SubSeq(log, Len(log) - Len(own) + 1, Len(log)) = own
    /\ \A i \in 1..(Len(log) - Len(own)) : log[i] \in WorksheetCalls

\* C1: when append_history returns from the append branch, the only call it issued
\* is the append, and the tab is what it was before with exactly the N rows of the
\* dataset added below: header, earlier rows, formats and rules untouched.
C1_AppendAddsExactlyTheRows ==
    (HistoryReturned /\ branch = "append") =>
        /\ calls = << "append" >>
        /\ sheet[ws] = [before EXCEPT !.data =
                           before.data \o NormalizeDf(df[HistoryEntity]).rows]

\* C2: when append_history returns from the initialize branch it found no header,
\* issued reset, one values write and one format batch and no append; the tab holds
\* the header in row 1 followed by all rows of the dataset, carries the header style
\* and every column format, and has a header.  A history tab that has a header keeps
\* it, so the next header check takes the append branch.
C2_InitializedState ==
    (HistoryReturned /\ branch = "init") =>
        LET d == NormalizeDf(df[HistoryEntity])
            t == sheet[ws]
            formats == BuildColumnFormatRequests(cfg[HistoryEntity], d, 2, max_rows)
        IN /\ ~HasHeader(before)
           /\ CallsAre(calls, << "clear", "reset_batch", "init_values", "init_formats" >>)
           /\ t.hrow = 1 /\ t.header = d.cols /\ t.data = d.rows
           /\ [style |-> "HEADER_BLUE", range |-> << 1, 1, 1, Len(d.cols) >>] \in t.fmts
           /\ \A i \in 1..Len(formats) :
                 [style |-> formats[i].style, range |-> formats[i].range] \in t.fmts
           /\ HasHeader(t)

C2_HeaderKept ==
    \A h \in HistoryTabs : HasHeader(sheet[h]) => HasHeader(sheet'[h])

C2_AppendTakenOnHeader == (branch = "init") => ~HasHeader(before)

C2_InitializeBranch ==
    /\ [](C2_InitializedState /\ C2_AppendTakenOnHeader)
    /\ [][C2_HeaderKept]_vars

C2_Witness ==
    /\ HistoryReturned /\ branch = "init"
    /\ Len(sheet[ws].data) = MaxRows
    /\ "add_worksheet" \in { calls[i] : i \in 1..Len(calls) }

\* C3: no step of any run, failing or not, changes or removes a data row a history
\* tab holds: the rows it held are a prefix of the rows it holds after the step, in
\* the same place under the same header.
C3_RowsKept ==
    \A h \in HistoryTabs :
        /\ IsPrefix(sheet[h].data, sheet'[h].data)
        /\ Len(sheet[h].data) > 0 =>
              (sheet'[h].hrow = sheet[h].hrow /\ sheet'[h].header = sheet[h].header)

C3_HistoryGrowsByAppending == [][C3_RowsKept]_vars

C3_Witness ==
    /\ run = MaxRuns /\ result = "error"
    /\ failure.step = "servers_history" /\ failure.site = "append"
    /\ Len(sheet["Hist_Servidores"].data) > 0

\* C4: the append branch adds each row of the dataset at most once, whatever the
\* append call answers: the tab never holds more than its earlier rows plus the N
\* rows of the dataset.
C4_RowsAppendedAtMostOnce ==
    (branch = "append") =>
        Len(sheet[ws].data) <= Len(before.data) + Len(df[WsEntity].rows)

\* C5: _execute_with_backoff invokes func K times, K the first invocation that
\* succeeds or fails with a status other than 429, 500, 503, at most 6; it sleeps
\* between invocations only, returns on success and raises otherwise.
FirstFinal(s) ==
    IF \E k \in 1..max_attempts : ~Retryable(s[k])
    THEN CHOOSE k \in 1..max_attempts :
            ~Retryable(s[k]) /\ \A j \in 1..(k - 1) : Retryable(s[j])
    ELSE max_attempts

C5_InvocationCount ==
    /\ invocations <= 6
    /\ outcome = "running" =>
          /\ invocations < FirstFinal(script)
          /\ sleeps = invocations
          /\ attempt = invocations + 1
          /\ ENABLED BackoffPass
    /\ outcome # "running" =>
          /\ invocations = FirstFinal(script)
          /\ sleeps = invocations - 1
          /\ (outcome = "returned") = (script[invocations] = 200)
          /\ (outcome = "raised") = (script[invocations] # 200)

C5_Witness ==
    /\ outcome = "raised"
    /\ invocations = max_attempts
    /\ Retryable(script[max_attempts])

\* C6: no mutating remote call gives up on a retryable status before the ceiling of
\* _execute_with_backoff: a run that ended on a 429, 500 or 503 of a mutating call
\* made max_attempts invocations of it.
C6_MutatingCallsRetried ==
    (result = "error" /\ failure.site \in MutatingSites /\ Retryable(failure.status)) =>
        failure.attempt = max_attempts

\* C7: for a non-empty dataset update_snapshot issues, after finding the worksheet,
\* the reset (clear, then the reset batch), then the values write, then the structure
\* write, each once and in that order; the values write starts on a tab the reset
\* emptied, and nothing clears or resets the tab after the values write.
C7_SnapshotCallOrder ==
    /\ (SnapshotReturned /\ ~DfEmpty(df[StepEntity(step)])) =>
          CallsAre(calls, << "clear", "reset_batch", "values", "structure" >>)
    /\ (step \in SnapshotSteps /\ pc = "values" /\ attempt = 1) =>
          /\ CallsAre(calls, << "clear", "reset_batch" >>)
          /\ sheet[ws].data = << >> /\ sheet[ws].header = << >>
          /\ sheet[ws].rules = << >> /\ sheet[ws].merges = {}
    /\ (step \in SnapshotSteps /\ pc = "structure" /\ attempt = 1) =>
          CallsAre(calls, << "clear", "reset_batch", "values" >>)
    /\ \A i, j \in 1..Len(calls) :
          (i < j /\ calls[i] \in {"values", "structure"}) =>
              calls[j] \notin {"clear", "reset_batch", "values"}

C7_Witness ==
    /\ SnapshotReturned /\ run = MaxRuns
    /\ Len(df[StepEntity(step)].rows) = MaxRows
    /\ Len(calls) = 4
    /\ before.stamp = 1

\* C8: when the structure write of update_snapshot fails after the values write,
\* the tab holds this run's title, metadata, header and rows; it carries no format,
\* rule or merge unless a failed attempt had been applied; the run has ended with the
\* error, and nothing is written until the next run.
C8_ValuesStayUnformatted ==
    (result = "error" /\ failure.step \in SnapshotSteps /\ failure.site = "structure") =>
        LET e == StepEntity(failure.step)
            d == NormalizeDf(df[e])
            t == sheet[cfg[e].tab_name]
        IN /\ step = "idle"
           /\ CallsAre(calls, << "clear", "reset_batch", "values", "structure" >>)
           /\ t.title = cfg[e].title /\ t.stamp = run
           /\ t.hrow = start_row /\ t.header = d.cols /\ t.data = d.rows
           /\ ~failure.applied => (t.fmts = {} /\ t.rules = << >> /\ t.merges = {})

C8_NoRepair == (result = "error") => (sheet' = sheet)

C8_StructureFailure == []C8_ValuesStayUnformatted /\ [][C8_NoRepair]_vars

C8_Witness ==
    /\ result = "error" /\ failure.step = "servers_snapshot"
    /\ failure.site = "structure" /\ failure.attempt = max_attempts
    /\ ~failure.applied
    /\ Len(sheet["Servidores"].data) = MaxRows
    /\ sheet["Servidores"].fmts = {}

\* The rules the structure write of this run emits for the entity.
EmittedRules(e) ==
    LET reqs == BuildConditionalFormatRequests(NormalizeDf(df[e]), cfg[e], start_row + 1)
    IN { reqs[i].rule : i \in 1..Len(reqs) }

\* The formats the structure write of this run sets for the entity.
EmittedFormats(e) ==
    LET reqs == SnapshotStructureRequests(cfg[e], NormalizeDf(df[e]), start_row)
    IN { [style |-> reqs[i].style, range |-> reqs[i].range] :
            i \in { k \in 1..Len(reqs) : reqs[k].kind = "repeatCell" } }

\* The tab shows the dataset of this run and nothing else.
ShowsOnlyThisRun(t, e) ==
    LET d == NormalizeDf(df[e])
    IN /\ t.header = d.cols /\ t.data = d.rows
       /\ t.stamp = IF DfEmpty(df[e]) THEN 0 ELSE run
       /\ \A i \in 1..Len(t.rules) : t.rules[i] \in EmittedRules(e)
       /\ t.merges \subseteq {<< 1, 1, 1, 2 >>}

\* C9 as stated: whenever a run gets past the snapshot step of an entity, the
\* snapshot tab shows only that run's dataset, an empty dataset included.
C9_EveryDatasetRewritten ==
    SnapshotReturned =>
        ShowsOnlyThisRun(sheet[cfg[StepEntity(step)].tab_name], StepEntity(step))

\* C9: whenever a run gets past the snapshot step of an entity with a non-empty
\* dataset, the snapshot tab shows only that run's title, stamp, header, rows, rules,
\* merge and formats; with an empty dataset update_snapshot issues no call and the
\* tab is left as the previous run left it.
C9_NonEmptyDatasetRewritten ==
    SnapshotReturned =>
        LET e == StepEntity(step)
            t == sheet[cfg[e].tab_name]
        IN IF DfEmpty(df[e])
           THEN calls = << >> /\ t = before
           ELSE /\ ShowsOnlyThisRun(t, e)
                /\ t.title = cfg[e].title /\ t.hrow = start_row
                /\ t.merges = {<< 1, 1, 1, 2 >>}
                /\ t.fmts = EmittedFormats(e)
                /\ { t.rules[i] : i \in 1..Len(t.rules) } = EmittedRules(e)

C9_Witness ==
    /\ SnapshotReturned /\ step = "cameras_history" /\ run = MaxRuns
    /\ ~DfEmpty(df.cameras)
    /\ before.stamp = 1 /\ Len(before.rules) > 0
    /\ cfg.cameras = CamerasB
    /\ sheet["Camaras"].rules = << >>

\* C10: after update_snapshot returns for a non-empty dataset the tab holds exactly
\* the rules that run emitted, each once.
C10_RulesExactlyEmitted ==
    (SnapshotReturned /\ ~DfEmpty(df[StepEntity(step)])) =>
        LET t == sheet[cfg[StepEntity(step)].tab_name]
        IN /\ { t.rules[i] : i \in 1..Len(t.rules) } = EmittedRules(StepEntity(step))
           /\ Len(t.rules) = Cardinality(EmittedRules(StepEntity(step)))

\* Row 1 of the tab holds nothing: no title in A1 and no table header in row 1.
RowOneEmpty(t) == t.title = "" /\ ~(t.hrow = 1 /\ Len(t.header) > 0)

\* C11: append_history takes the initialize branch exactly when row 1 of the history
\* tab, where the header goes, is empty, whatever the tab holds elsewhere (rows, a
\* table further down, formats, merges); otherwise it takes the append branch.
C11_BranchByHeaderOnly ==
    /\ (branch \in {"init", "append"}) => ((branch = "init") <=> RowOneEmpty(before))
    /\ (pc = "clear" /\ step \in HistorySteps) => branch = "init"
    /\ (pc = "append") => branch = "append"

C11_Witness ==
    /\ branch = "init" /\ pc = "clear"
    /\ before.hrow = start_row /\ Len(before.data) > 0
    /\ before.fmts # {}

\* C12: append_history called with a dataset without rows issues no remote call and
\* changes nothing in the spreadsheet, whether or not the history tab has a header: the
\* method returns at once, no worksheet is looked up, created, resized or cleared.
C12_NoCallOnEmpty ==
    /\ (step \in HistorySteps /\ Len(df[StepEntity(step)].rows) = 0) => pc = "begin"
    /\ (HistoryReturned /\ Len(df[HistoryEntity].rows) = 0) =>
          (calls = << >> /\ branch = "skip")

C12_SheetUntouched ==
    (step \in HistorySteps /\ Len(df[StepEntity(step)].rows) = 0) => sheet' = sheet

C12_EmptyDatasetNoWrite == []C12_NoCallOnEmpty /\ [][C12_SheetUntouched]_vars

C12_Witness ==
    /\ HistoryReturned /\ step = "dashboard" /\ run = MaxRuns
    /\ Len(df.cameras.rows) = 0
    /\ HasHeader(sheet["Hist_Camaras"])
    /\ Len(sheet["Hist_Camaras"].data) > 0

\* The steps of run_pipeline in the order of its source ("fetch" reads the documents
\* and transforms them).
PipelineOrder ==
    << "fetch", "servers_snapshot", "servers_history", "cameras_snapshot",
       "cameras_history", "dashboard" >>

\* The step in which run_pipeline writes the tab.
StepOfTab(t) ==
    IF t = cfg.servers.tab_name THEN "servers_snapshot"
    ELSE IF t = cfg.servers.history_tab THEN "servers_history"
    ELSE IF t = cfg.cameras.tab_name THEN "cameras_snapshot"
    ELSE IF t = cfg.cameras.history_tab THEN "cameras_history"
    ELSE "dashboard"

\* The rows of the dataset are the last rows of the tab.
EndsWith(t, d) ==
    /\ Len(t.data) >= Len(d.rows)
    /\ SubSeq(t.data, Len(t.data) - Len(d.rows) + 1, Len(t.data)) = d.rows

\* C13: a run goes through fetch and transform, servers snapshot, servers history,
\* cameras snapshot, cameras history, dashboard in this order, a step starting when
\* the one before it has returned; a tab is written only during its own step, and
\* when the dashboard step starts both history tabs hold the rows of this run.
C13_NextInOrder ==
    (step' # step) =>
        \/ step = "idle" /\ step' = "fetch"
        \/ step' = "idle" /\ (result' = "ok" => step = "dashboard")
        \/ /\ pc' = "begin"
           /\ \E i \in 1..(Len(PipelineOrder) - 1) :
                 step = PipelineOrder[i] /\ step' = PipelineOrder[i + 1]

C13_WrittenInOwnStep ==
    \A t \in TabNames : (sheet'[t] # sheet[t]) => step = StepOfTab(t)

C13_HistoriesBeforeDashboard ==
    (step = "dashboard") =>
        \A e \in Entities :
            Len(df[e].rows) > 0 =>
                /\ EndsWith(sheet[cfg[e].history_tab], NormalizeDf(df[e]))
                /\ sheet[cfg[e].tab_name].stamp = run

C13_FixedOrder ==
    /\ []C13_HistoriesBeforeDashboard
    /\ [][C13_NextInOrder /\ C13_WrittenInOwnStep]_vars

C13_Witness ==
    /\ step = "dashboard" /\ pc = "d_structure" /\ run = MaxRuns
    /\ Len(df.cameras.rows) > 0
    /\ Len(sheet["Hist_Camaras"].data) > Len(df.cameras.rows)

StepIndex(s) == CHOOSE i \in 1..Len(PipelineOrder) : PipelineOrder[i] = s

\* The tab of step s carries nothing written in this run.
NotExecuted(s) ==
    IF s \in SnapshotSteps THEN sheet[cfg[StepEntity(s)].tab_name].stamp # run
    ELSE IF s \in HistorySteps
    THEN LET t == sheet[cfg[StepEntity(s)].history_tab]
         IN \A k \in 1..Len(t.data) : t.data[k][2] # run
    ELSE (run = 1) => ~sheet["Dashboard"].exists

\* The tab of step s holds what the step wrote in this run.
StillWritten(s) ==
    IF Len(df[StepEntity(s)].rows) = 0 \/ s \notin (SnapshotSteps \cup HistorySteps) THEN TRUE
    ELSE IF s \in SnapshotSteps
    THEN /\ sheet[cfg[StepEntity(s)].tab_name].stamp = run
         /\ sheet[cfg[StepEntity(s)].tab_name].data = NormalizeDf(df[StepEntity(s)]).rows
    ELSE EndsWith(sheet[cfg[StepEntity(s)].history_tab], NormalizeDf(df[StepEntity(s)]))

\* C14: when a step raises, run_pipeline ends the run there and returns (a new run
\* can start); no later step of the order has run, so their tabs carry nothing of this
\* run, the tabs of the earlier steps keep what this run wrote, and nothing is written
\* between runs.
C14_RunEndsAtFailure ==
    (result = "error") =>
        /\ step = "idle" /\ pc = "begin"
        /\ failure.step \in { PipelineOrder[i] : i \in 1..Len(PipelineOrder) }
        /\ \A i \in 1..Len(PipelineOrder) :
              /\ i > StepIndex(failure.step) => NotExecuted(PipelineOrder[i])
              /\ (i < StepIndex(failure.step) /\ i > 1) => StillWritten(PipelineOrder[i])
        /\ (run < MaxRuns) => ENABLED RunStart

C14_NothingBetweenRuns == (step = "idle") => (sheet' = sheet)

C14_ErrorCaught == []C14_RunEndsAtFailure /\ [][C14_NothingBetweenRuns]_vars

C14_Witness ==
    /\ result = "error" /\ failure.step = "servers_snapshot" /\ run = 1
    /\ failure.site = "values"
    /\ ~sheet["Hist_Servidores"].exists
    /\ sheet["Camaras"].stamp = 0
    /\ ~sheet["Dashboard"].exists

\* The tab holds the row run p wrote.
Holds(t, p) == \E k \in 1..Len(t.data) : t.data[k] = RunDf(p).rows[1]

Finished(p) == cpc[p] = "done"

\* C15 as stated: two runs at once can leave a tab without rows a run wrote, and as
\* long as no run started while another was in flight no tab lacks a row a finished
\* run wrote, the snapshot tab and the history tab alike.
C15_NothingErasedWhenAlone ==
    ~overlapped =>
        \A p \in Runs : Finished(p) => (Holds(ctabs.hist, p) /\ Holds(ctabs.snap, p))

\* C15: as long as no run started while another was in flight, no run fails on the
\* other's changes, the history tab keeps every row it ever held and holds the row of
\* every finished run, and the snapshot tab shows the dataset of the run that finished
\* last (the next run rewrites it).  Two runs at once can leave the history tab
\* without the rows one of them wrote.
C15_AloneState ==
    ~overlapped =>
        \A p \in Runs :
            /\ cpc[p] # "failed"
            /\ Finished(p) => Holds(ctabs.hist, p)
            /\ (Finished(p) /\ cpc[Other(p)] \in {"idle", "done"}
                  /\ (Finished(Other(p)) => ctabs.snap.stamp = p)) =>
                  (ctabs.snap.data = RunDf(p).rows /\ ctabs.snap.stamp = p)

C15_AloneStep == ~overlapped' => IsPrefix(ctabs.hist.data, ctabs'.hist.data)

C15_RunsAloneKeepHistory == []C15_AloneState /\ [][C15_AloneStep]_vars

C15_Witness ==
    /\ overlapped /\ Finished(1) /\ Finished(2)
    /\ ~cbranch[1].header /\ ~cbranch[2].header
    /\ ~(Holds(ctabs.hist, 1) /\ Holds(ctabs.hist, 2))

----------------------------------------------------------------------------
(* C16 *)

\* C16: timestamp normalization is idempotent: applying _fix_timestamps to a row
\* that _fix_timestamps produced yields the same row, in every configured time
\* zone; an already converted, timezone-unmarked value is left as it is.
C16_FixTimestampsIdempotent ==
    tstage = "again" => refixed.servers = flat.servers

----------------------------------------------------------------------------
(* C17 *)

\* The column labels of a table once rename_map is applied.
RenamedLabels(table, config) ==
    { RenameColumn(config, table.cols[c]) : c \in 1..Len(table.cols) }

RECURSIVE DeclaredPresent(_, _, _)
\* The declared display names found among `present`, each once, in declared order.
DeclaredPresent(config, present, i) ==
    IF i > Len(config) THEN << >>
    ELSE IF config[i].name \in present
    THEN << config[i].name >> \o DeclaredPresent(config, present, i + 1)
    ELSE DeclaredPresent(config, present, i + 1)

ProjectsExactly(rows, out, config) ==
    ~ DfEmpty(DataFrame(rows))
        => out.cols = DeclaredPresent(config, RenamedLabels(DataFrame(rows), config), 1)

\* C17: for every non-empty input table and every ordered column schema, the
\* output columns of _rename_and_filter are exactly the declared display names
\* present in the data after renaming, each once, in declaration order.
C17_ProjectorColumns ==
    tstage \in {"done", "again"}
        => /\ ProjectsExactly(flat.servers, datasets.servers, columns_config.servers)
           /\ ProjectsExactly(flat.cameras, datasets.cameras, columns_config.cameras)

----------------------------------------------------------------------------
(* C18 *)

\* The camera rows that come from an entry with a timestamp field of its own.
WithOwnTimestamp(rows) ==
    { i \in 1..Len(rows) : HasKey(rows[i], "timestamp_query") }

\* C18: when the server row of a document has a normalized query timestamp,
\* the row of every map-shaped camera entry that has its own timestamp field
\* carries the server's normalized query timestamp, and not the value derived
\* from the camera's own field.
C18_CameraCarriesServerQueryTime ==
    (tstage \in {"flat", "done", "again"}
        /\ Get(flat.servers[1], "timestamp_query_dt").kind = "naive")
        => \A i \in WithOwnTimestamp(flat.cameras) :
              Get(flat.cameras[i], "timestamp_query_dt")
                  = Get(flat.servers[1], "timestamp_query_dt")

C18_Witness ==
    /\ tstage = "flat"
    /\ Get(flat.servers[1], "timestamp_query_dt") = Val("naive", Epoch + tz)
    /\ \E i \in WithOwnTimestamp(flat.cameras) :
          /\ Get(flat.cameras[i], "timestamp_query") = Val("num", Epoch + 2)
          /\ Get(flat.cameras[i], "timestamp_query_dt") = Val("naive", Epoch + tz)
          /\ Get(flat.cameras[i], "timestamp_query_dt")
                 # Converted(Get(flat.cameras[i], "timestamp_query"), tz)

----------------------------------------------------------------------------
(* C19 *)

\* The keys of a document that name a time and hold a date-like string.
DateStringKeys(data) ==
    { k \in TimeKeys \ DtKeys : HasKey(data, k) /\ Get(data, k).kind = "str" }

\* C19: for a key containing "timestamp" or "utc" whose value is a date-like
\* string, _fix_timestamps puts the converted local naive datetime under the
\* original key and adds no key; only numeric values give a separate <key>_dt.
C19_DateStringReplacedInPlace ==
    tstage \in {"flat", "done", "again"}
        => \A k \in DateStringKeys(raw_docs[1].data) :
              /\ Get(flat.servers[1], k) = Converted(Get(raw_docs[1].data, k), tz)
              /\ ~ HasKey(flat.servers[1], OutKey(k))

----------------------------------------------------------------------------
(* C20 *)

\* [("srv1", {"server_stats": {"cpu": 10}, "cameras_status": {"cam1": {"status":
\* "ok"}}, "timestamp_query": 1700000000})]
ExampleDocs ==
    << Document("map", "map", << Entry("timestamp_query", Val("num", Epoch)) >>, << >>,
                << [name |-> Val("text", 11), val |-> Val("map", 0),
                    data |-> << Entry("status", StatusOk) >>] >>) >>

ExampleRun ==
    /\ tstage \in {"done", "again"}
    /\ raw_docs = ExampleDocs
    /\ columns_config = [servers |-> SchemaExample, cameras |-> SchemaExample]

\* What row r of a table holds under a label; nothing when no column bears it.
Cell(table, r, label) ==
    IF \E c \in 1..Len(table.cols) : table.cols[c] = label
    THEN table.rows[r][CHOOSE c \in 1..Len(table.cols) : table.cols[c] = label]
    ELSE NoneVal

\* C20 as stated: for the example document and the schema declaring only
\* server_stats_cpu -> "CPU" and timestamp_query_dt -> "Consultado", the servers
\* row has Server Name = srv1, CPU = 10 and Consultado = the local datetime, and
\* the cameras row has Server Name = srv1, camera_name = cam1, status = ok and
\* the same Consultado.
C20_ExampleRowsWithNames ==
    ExampleRun
        => /\ Len(datasets.servers.rows) = 1
           /\ Cell(datasets.servers, 1, "Server Name") = Srv1
           /\ Cell(datasets.servers, 1, "CPU") = Val("num", 10)
           /\ Cell(datasets.servers, 1, "Consultado") = Val("naive", Epoch + tz)
           /\ Len(datasets.cameras.rows) = 1
           /\ Cell(datasets.cameras, 1, "Server Name") = Srv1
           /\ Cell(datasets.cameras, 1, "camera_name") = Val("text", 11)
           /\ Cell(datasets.cameras, 1, "status") = StatusOk
           /\ Cell(datasets.cameras, 1, "Consultado") = Val("naive", Epoch + tz)

\* C20, amended: for the example document and that schema, the servers table
\* is exactly one row of the columns CPU = 10 and Consultado = the local
\* datetime, and the cameras table exactly one row of the single column
\* Consultado = the same local datetime; the undeclared Server Name,
\* camera_name and status are removed.
C20_ExampleRowsDeclaredOnly ==
    ExampleRun
        => /\ datasets.servers
                = [ cols |-> << "CPU", "Consultado" >>,
                    rows |-> << << Val("num", 10), Val("naive", Epoch + tz) >> >> ]
           /\ datasets.cameras
                = [ cols |-> << "Consultado" >>,
                    rows |-> << << Val("naive", Epoch + tz) >> >> ]

C20_Witness ==
    /\ ExampleRun
    /\ tstage = "done"
    /\ tz = 0 - 3
    /\ Cell(datasets.servers, 1, "Consultado") = Val("naive", Epoch - 3)
    /\ Cell(datasets.cameras, 1, "Consultado") = Val("naive", Epoch - 3)

----------------------------------------------------------------------------
(* C21 *)

\* The structure batch of update_snapshot has taken effect on the tab.
StructureApplied(t) == [style |-> "HEADER_MAIN", range |-> << 1, 1, 1, 2 >>] \in t.fmts

\* Position of a column in the header of a tab, 0 when it is not there.
HeaderIndex(t, name) ==
    IF \E c \in 1..Len(t.header) : t.header[c] = name
    THEN CHOOSE c \in 1..Len(t.header) : t.header[c] = name
    ELSE 0

\* The rows the rules of a table reach: its data rows and the empty row below.
RuleRows(t) == (t.hrow + 1)..(t.hrow + Len(t.data) + 1)

\* C21: for a threshold with operator >, >=, < or <= and value v, the emitted
\* rule flags a cell if and only if the row's primary-key cell is non-empty, the
\* cell is non-empty and the cell's number satisfies the comparison with v.
C21_ThresholdFlagsExactly ==
    LET t == sheet["Servidores"]
        key == HeaderIndex(t, "Servidor")
    IN (StructureApplied(t) /\ key # 0)
          => \A c \in 1..Len(t.header) : \A i \in 1..Len(cfg.servers.columns) :
                (cfg.servers.columns[i].name = t.header[c]
                    /\ cfg.servers.columns[i].op \in {">", ">=", "<", "<="})
                => \A r \in RuleRows(t) :
                      Flagged(t, r, c)
                        <=> /\ CellAt(t, r, key) # EmptyCell
                            /\ CellAt(t, r, c) # EmptyCell
                            /\ Compare(cfg.servers.columns[i].op, CellAt(t, r, c),
                                       cfg.servers.columns[i].value)

\* With > 80: 85 is flagged, 80 is not, the empty row below is not.
C21_Witness ==
    LET t == sheet["Servidores"]
    IN /\ StructureApplied(t)
       /\ t.header = << "Servidor", "CPU" >>
       /\ cfg.servers.columns[2].op = ">"
       /\ t.data = << << 1, Threshold + 5 >>, << 1, Threshold >> >>
       /\ Flagged(t, start_row + 1, 2)
       /\ ~ Flagged(t, start_row + 2, 2)
       /\ ~ Flagged(t, start_row + 3, 2)

----------------------------------------------------------------------------
(* C22 *)

\* The cells C3, F3, C28 and F28.
SelectorCells == { << 3, 3, 3, 3 >>, << 3, 6, 3, 6 >>, << 28, 3, 28, 3 >>, << 28, 6, 28, 6 >> }

\* DashboardBuilder.build has returned and the run ended without an error.
DashboardBuilt == step = "idle" /\ result = "ok"

\* _prepare_worksheet has returned, the structure batch of build is still to come.
DashboardPrepared == step = "dashboard" /\ pc \in {"d_values", "d_structure"}

\* C22: after any number of successful dashboard builds the Dashboard sheet has
\* exactly two charts and data validation on the four selector cells only; each
\* build first deletes every chart the metadata reports and clears the validations.
C22_DashboardNeverAccumulates ==
    /\ DashboardBuilt
          => /\ sheet["Dashboard"].charts = 2
             /\ sheet["Dashboard"].validations = SelectorCells
    /\ DashboardPrepared
          => /\ sheet["Dashboard"].charts = 0
             /\ sheet["Dashboard"].validations = {}

\* The second successful build: it found the two charts of the first and deleted them.
C22_Witness ==
    /\ DashboardBuilt
    /\ run = 2
    /\ nrules = 2
    /\ sheet["Dashboard"].charts = 2

----------------------------------------------------------------------------
(* C23 *)

\* Data position i starts a maximal run of equal consecutive values of column c
\* that ends at position j.
MaximalRun(rows, c, i, j) ==
    /\ i <= j
    /\ \A k \in i..j : rows[k][c] = rows[i][c]
    /\ (i > 1 => rows[i - 1][c] # rows[i][c])
    /\ (j < Len(rows) => rows[j + 1][c] # rows[i][c])

\* One merge range per maximal run of two or more values, over the data rows of
\* the run in that column.
RunMerges(t, c) ==
    { << t.hrow + p[1], c, t.hrow + p[2], c >> :
        p \in { q \in (1..Len(t.data)) \X (1..Len(t.data)) :
                  q[1] < q[2] /\ MaximalRun(t.data, c, q[1], q[2]) } }

\* C23: for a tab configured with a merge column, the snapshot structure write
\* contains one merge range per maximal run of two or more equal consecutive
\* values of that column and none for a run of one: A, A, A, B, B, C gives two
\* merge ranges, over the data positions 1-3 and 4-5.
C23_MergeRuns ==
    LET t == sheet["Servidores"]
        c == HeaderIndex(t, cfg.servers.merge_column)
    IN (StructureApplied(t) /\ cfg.servers.merge_column # "" /\ c # 0)
          => { m \in t.merges : m # << 1, 1, 1, 2 >> } = RunMerges(t, c)

----------------------------------------------------------------------------
(* C24 *)

\* Every data row of the tab is inside the range of each conditional rule of the
\* tab, in the column of the rule.
RulesCoverData(t) ==
    \A i \in 1..Len(t.rules) : \A r \in (t.hrow + 1)..(t.hrow + Len(t.data)) :
        Within(<< r, t.rules[i].range[2], r, t.rules[i].range[2] >>, t.rules[i].range)

\* Every data row of the tab is inside the range of a number format of each
\* column that was given one.
FormatsCoverData(t) ==
    \A f \in t.fmts :
        (f.style \in FORMATS /\ f.range[1] > t.hrow)
            => \A r \in (t.hrow + 1)..(t.hrow + Len(t.data)) :
                  \E g \in t.fmts :
                      /\ g.style = f.style
                      /\ Within(<< r, f.range[2], r, f.range[2] >>, g.range)

\* C24: the conditional rules and the history number formats reach a fixed row
\* (1200) that covers every data row however the sheets grow: for every snapshot
\* height and every history length reached by successive appends, each data row
\* is inside the row range of the rules and formats of its column.
C24_FixedBoundCoversData ==
    /\ \A e \in Entities :
          StructureApplied(sheet[cfg[e].tab_name]) => RulesCoverData(sheet[cfg[e].tab_name])
    /\ \A h \in HistoryTabs :
          (sheet[h].hrow = 1 /\ pc = "begin") => FormatsCoverData(sheet[h])

\* C25: in one run the snapshot write and the history write of an entity use the
\* same normalization of the same dataset: when append_history has returned, the
\* data rows below the snapshot header are, value for value and in order, the rows
\* of the history tab (initialize branch) or its last rows (append branch).
C25_SameRowsInSnapshotAndHistory ==
    (HistoryReturned /\ Len(df[HistoryEntity].rows) > 0) =>
        LET snapshot == sheet[cfg[HistoryEntity].tab_name]
            history == sheet[cfg[HistoryEntity].history_tab]
        IN /\ snapshot.stamp = run
           /\ Len(snapshot.data) = Len(df[HistoryEntity].rows)
           /\ EndsWith(history, [rows |-> snapshot.data])
           /\ (branch = "init") => history.data = snapshot.data

\* Both branches are taken with a row that holds a missing value.
C25_Witness ==
    /\ HistoryReturned /\ branch = "append"
    /\ \E i \in 1..Len(df[HistoryEntity].rows) :
          \E c \in 1..Len(df[HistoryEntity].rows[i]) :
             /\ df[HistoryEntity].rows[i][c] = NaN
             /\ sheet[cfg[HistoryEntity].tab_name].data[i][c] = EmptyCell
             /\ LET history == sheet[cfg[HistoryEntity].history_tab]
                IN history.data[Len(history.data) - Len(df[HistoryEntity].rows) + i][c]
                      = EmptyCell

----------------------------------------------------------------------------
(* C26 *)

\* The formats of the title and metadata block, which do not depend on the table.
TitleFormats ==
    { [style |-> "HEADER_MAIN", range |-> << 1, 1, 1, 2 >>],
      [style |-> "METADATA_LABEL", range |-> << 2, 1, 3, 1 >>],
      [style |-> "METADATA_VALUE", range |-> << 2, 2, 3, 2 >>],
      [style |-> "DATE_TIME", range |-> << 2, 2, 2, 2 >>],
      [style |-> "DURATION", range |-> << 3, 2, 3, 2 >>] }

\* C26: for a table of width W >= 1 and height N >= 1 the snapshot header is at
\* row 6 and the data at rows 7..6+N; every per-column number format covers
\* exactly rows 7..6+N of its column, and no range derived from the table (table
\* style, header style, formats, conditional rules) includes rows 1-3.
C26_SnapshotLayout ==
    LET t == sheet["Servidores"]
        W == Len(t.header)
        N == Len(t.data)
    IN (StructureApplied(t) /\ W >= 1 /\ N >= 1) =>
          /\ t.hrow = 6
          /\ [style |-> "TABLE_BASE", range |-> << 6, 1, 6 + N, W >>] \in t.fmts
          /\ [style |-> "HEADER_BLUE", range |-> << 6, 1, 6, W >>] \in t.fmts
          /\ \A f \in t.fmts \ TitleFormats :
                /\ f.range[1] > 3
                /\ f.style \in FORMATS =>
                      \E c \in 1..W : f.range = << 7, c, 6 + N, c >>
          /\ \A c \in 1..W : \A i \in 1..Len(cfg.servers.columns) :
                (cfg.servers.columns[i].name = t.header[c]
                    /\ cfg.servers.columns[i].format \in FORMATS)
                => [style |-> cfg.servers.columns[i].format,
                    range |-> << 7, c, 6 + N, c >>] \in t.fmts
          /\ \A i \in 1..Len(t.rules) : t.rules[i].range[1] = 7

\* A table of two columns and more than one row, with its formats and a rule.
C26_Witness ==
    LET t == sheet["Servidores"]
    IN /\ StructureApplied(t)
       /\ Len(t.header) = 2 /\ Len(t.data) = MaxRows
       /\ [style |-> "NUMBER", range |-> << 7, 2, 6 + MaxRows, 2 >>] \in t.fmts
       /\ Len(t.rules) = 1

----------------------------------------------------------------------------
(* C27 *)

\* The operators the rule compiler turns into a rule.
SupportedOperators == {"!=", ">", ">=", "<", "<=", "between", "not_between"}

\* The columns of the tab whose spec has a threshold with a supported operator.
ColumnsWithRule(t, tab_config) ==
    { c \in 1..Len(t.header) :
        \E i \in 1..Len(tab_config.columns) :
            /\ tab_config.columns[i].name = t.header[c]
            /\ tab_config.columns[i].op \in SupportedOperators }

\* Building the structure requests raised before any call was made.
CompilerRaised == failure.site = "structure" /\ failure.status = 0

\* The rules on the tab are those of the compiler: none without the primary-key
\* column, else one per column with a supported operator.
RulesAsCompiled(t, tab_config) ==
    IF HeaderIndex(t, "Servidor") = 0 THEN Len(t.rules) = 0
    ELSE /\ Len(t.rules) = Cardinality(ColumnsWithRule(t, tab_config))
         /\ \A c \in ColumnsWithRule(t, tab_config) :
               \E i \in 1..Len(t.rules) : t.rules[i].range[2] = c

\* C27: the rule compiler emits zero rules when the table has no primary-key
\* column, otherwise exactly one rule per column whose threshold has a supported
\* operator; a missing, empty or unsupported operator contributes no rule, never
\* raises an error and never suppresses the rules of other columns.  The rules are
\* read on the tab after a structure batch that was applied once.
C27_RuleCompilerNeverRaises ==
    /\ ~ CompilerRaised
    /\ (StructureApplied(sheet["Servidores"]) /\ lost = 0) =>
          RulesAsCompiled(sheet["Servidores"], cfg.servers)

----------------------------------------------------------------------------
(* C28 *)

\* The map-shaped entries of a map-shaped cameras_status, in their order.
MapChildren(d) ==
    IF Get(d.data, "cameras_status").kind = "map"
    THEN SelectSeq(d.cams, LAMBDA cam : cam.val.kind = "map")
    ELSE << >>

RECURSIVE ChildrenInOrder(_, _)
\* << document id, child name >> of every such entry, document by document.
ChildrenInOrder(docs, i) ==
    IF i > Len(docs) THEN << >>
    ELSE [ k \in 1..Len(MapChildren(docs[i])) |->
             << docs[i].id, MapChildren(docs[i])[k].name >> ]
         \o ChildrenInOrder(docs, i + 1)

\* C28: for every list of documents the flattener produces exactly one primary
\* row per document, in input order, and exactly one sub-entity row per
\* map-shaped entry of a map-shaped nested collection, in document then child
\* order; entries that are no map and a collection that is no map or is missing
\* contribute no row.
C28_OneRowPerDocumentAndChild ==
    (tstage # "start") =>
        /\ Len(flat.servers) = Len(raw_docs)
        /\ \A i \in 1..Len(raw_docs) :
              Get(flat.servers[i], "Server Name") = raw_docs[i].id
        /\ Len(flat.cameras) = Len(ChildrenInOrder(raw_docs, 1))
        /\ \A k \in 1..Len(flat.cameras) :
              << Get(flat.cameras[k], "Server Name"),
                 Get(flat.cameras[k], "camera_name") >> = ChildrenInOrder(raw_docs, 1)[k]

\* Three documents: a collection whose first entry is no map, no collection, a
\* collection of two maps.
C28_Witness ==
    /\ tstage = "flat"
    /\ Len(raw_docs) = 3
    /\ Len(raw_docs[1].cams) = 2
    /\ raw_docs[1].cams[1].val.kind # "map" /\ raw_docs[1].cams[2].val.kind = "map"
    /\ ~ HasKey(raw_docs[2].data, "cameras_status")
    /\ Len(MapChildren(raw_docs[3])) = 2
    /\ Len(flat.servers) = 3 /\ Len(flat.cameras) = 3

----------------------------------------------------------------------------
(* C29 *)

\* Every data row of the tab has as many cells as its header.
RowsMatchHeader(t) == \A i \in 1..Len(t.data) : Len(t.data[i]) = Len(t.header)

\* C29: across any sequence of runs, every row appended to an initialized history
\* tab has the same number of columns, in the same order, as the header row
\* written when the tab was initialized, even when the declared columns present
\* in the data differ between runs.
C29_AppendedRowsMatchHeader ==
    \A h \in HistoryTabs : (sheet[h].hrow = 1) => RowsMatchHeader(sheet[h])

----------------------------------------------------------------------------
(* C30 *)

\* The header is present in row 1 of the tab and there are rows below it.
Initialized(t) == t.hrow = 1 /\ Len(t.header) > 0 /\ Len(t.data) > 0

\* The batch of _apply_history_styles_and_formats has taken effect on the tab.
HistoryFormatted(t) == \E f \in t.fmts : f.style = "HEADER_BLUE" /\ f.range[1] = 1

\* C30: whenever a history tab is initialized its header style and number
\* formats have been applied: no sequence of runs and remote failures leaves the
\* tab with a header and data and without the formatting batch of the initialize
\* branch, never applied by a later run.  Read when a later run has ended without
\* an error: the initialized history tabs are formatted.
C30_InitializedHistoryIsFormatted ==
    (step = "idle" /\ run > 1 /\ result = "ok") =>
        \A h \in HistoryTabs : Initialized(sheet[h]) => HistoryFormatted(sheet[h])

====
